---- MODULE Spec2Model ----
(***************************************************************************)
(* Coordination substrate of flight-runner: the EventReporter delivery     *)
(* queue, the QueueClient acknowledgment protocol, the Coordinator loop    *)
(* (runAgent) that drives them, its session subscriber, the AbortWatcher,  *)
(* and the setup process with its status file and the SetupWaiter.         *)
(***************************************************************************)
EXTENDS Integers, Sequences, FiniteSets, TLC

\* ------------------------------------------------------------------ bounds
MaxEvents == 3      \* number of report() calls explored
MaxFailures == 2    \* number of failing Gateway answers explored
MaxMsgs == 2        \* number of messages the Gateway enqueues
MaxQcFailures == 2  \* number of failing answers to QueueClient calls
MaxSignals == 1     \* number of abort signal files the Gateway creates
MaxSessionMsgs == 2 \* number of assistant messages the session emits
MaxDeltas == 2      \* number of text deltas per assistant message
MaxWatcherOps == 6  \* number of AbortWatcher calls, ticks and file creations
MaxServices == 1    \* number of services a flightplan.yml configures
MaxCommands == 1    \* number of setup commands a flightplan.yml configures
TimeoutSeconds == 1 \* the --timeout=N of the SetupWaiter, in seconds
MaxToolCalls == 2   \* number of tool_call events the extension handles
MaxAgentEnds == 1   \* number of agent_end events the extension handles

Events == 1..MaxEvents

Msgs == 1..MaxMsgs

\* QueuedMessage.behavior
Behaviors == {"steer", "followUp", "abort"}

VARIABLES
    eventQueue,     \* EventReporter.eventQueue
    isFlushing,     \* EventReporter.isFlushing
    pc,             \* per report() call: where its flush() is parked
    cur,            \* per report() call: the event its sendEvent() holds
    reported,       \* number of report() calls made so far
    failures,       \* number of failing answers given so far
    drainPc,        \* position of the drain() call
    drainWaited,    \* drain() slept on its timer at least once
    log,            \* history of report / send / answer steps
    cpc,            \* runAgent: the await it is parked on
    batch,          \* runAgent: initialMessages / queuedMessages (ids)
    idx,            \* runAgent: position of the running for loop
    processedMessageIds, \* runAgent: processedMessageIds
    prompts,        \* session.prompt calls started, as lists of message ids
    emitted,        \* event types runAgent handed to reporter.report
    aborted,        \* AbortWatcher.aborted
    watching,       \* AbortWatcher.intervalId # null
    abortFile,      \* the abort signal file exists
    signals,        \* number of abort signals the Gateway created
    created,        \* messages the Gateway has enqueued
    gwDelivered,    \* ids the Gateway recorded as delivered
    gwProcessed,    \* ids the Gateway recorded as processed
    qcFailures,     \* number of failing answers to QueueClient calls
    qcLog,          \* history of QueueClient and session calls and returns
    behavior,       \* QueuedMessage.behavior of each enqueued message
    drainAwaited,   \* runAgent awaited reporter.drain()
    sessMsg,        \* session: number of the assistant message being emitted
    sessOpen,       \* session: message_start emitted, message_end not yet
    sessDeltas,     \* session: text deltas emitted, per message
    currentMessageId,      \* subscriber: currentMessageId (0 = undefined)
    currentMessageContent, \* subscriber: currentMessageContent, as deltas
    parkedEnds,     \* subscriber: message_end callbacks parked in report()
    subEvents,      \* subscriber: events handed to reporter.report
    onAbortCalls,   \* AbortWatcher: invocations of the onAbort callback
    wlog,           \* AbortWatcher: history of calls, ticks and file creations
    spc,            \* setup main: the await it is parked on
    wpc,            \* writeStatus: position inside writeFile
    status,         \* setup main: the SetupStatus object
    statusFile,     \* .flightplan-status.json on disk
    cfgServices,    \* loadConfig: number of configured services
    cfgCommands,    \* getSetupCommands: number of setup commands
    cfgDev,         \* getDevServerConfig: a dev server is configured
    cmdDone,        \* setup main: the loop index i of the setup commands
    provisioned,    \* every provisioning step of this run has succeeded
    provLog,        \* the provisioning steps that succeeded, in order
    wtpc,           \* SetupWaiter main: the await it is parked on
    reads,          \* SetupWaiter: the contents readFile has returned
    lastObs,        \* SetupWaiter: what the previous loop pass observed
    lastStep,       \* SetupWaiter main: lastStep
    stepLog,        \* SetupWaiter: the steps it logged
    wakeAt,         \* SetupWaiter: when the timer of sleep(500) is due
    now,            \* Date.now(), in units of 500 ms
    hasPulled,      \* gitSyncExtension: hasPulled
    branchIsDirty,  \* gitSyncExtension: branchIsDirty
    tpc,            \* per tool_call handler: the await it is parked on
    agentEnds,      \* number of agent_end events so far
    gitLog,         \* history of the git commands and of agent_end
    messageStartSent, \* lazy subscriber: messageStartSent
    updPc,          \* lazy subscriber: per message_update callback, its await
    abortPc,        \* onAbort callback of runAgent: the await it is parked on
    abortEv,        \* onAbort callback: the report() call it awaits
    sessionAborts   \* number of session.abort() calls

rvars == <<eventQueue, isFlushing, pc, cur, reported, failures, drainPc, drainWaited, log>>

cvars == <<cpc, batch, idx, processedMessageIds, prompts, emitted, aborted, watching,
           abortFile, signals, created, gwDelivered, gwProcessed, qcFailures, qcLog,
           behavior, drainAwaited>>

subvars == <<sessMsg, sessOpen, sessDeltas, currentMessageId, currentMessageContent,
             parkedEnds, subEvents>>

watchvars == <<onAbortCalls, wlog>>

mainvars == <<spc, wpc, status, statusFile, cfgServices, cfgCommands, cfgDev, cmdDone, provisioned,
              provLog>>

waitvars == <<wtpc, reads, lastObs, lastStep, stepLog, wakeAt, now>>

setupvars == <<mainvars, waitvars>>

extvars == <<hasPulled, branchIsDirty, tpc, agentEnds, gitLog>>

lazyvars == <<messageStartSent, updPc>>

cbvars == <<abortPc, abortEv, sessionAborts>>

ovars == <<subvars, watchvars, setupvars, extvars, lazyvars, cbvars>>

\* what the session subscriber leaves alone
notSub == <<rvars, cvars, watchvars, setupvars, extvars, lazyvars, cbvars>>

\* what the subscriber with lazy message:start leaves alone
notLazy == <<rvars, cvars, watchvars, setupvars, extvars, cbvars>>

\* what the AbortWatcher leaves alone, the Coordinator apart
notWatch == <<rvars, subvars, setupvars, extvars, lazyvars, cbvars>>

\* what the setup process and the SetupWaiter leave alone
notSetup == <<rvars, cvars, subvars, watchvars, extvars, lazyvars, cbvars>>

\* what the git-sync extension leaves alone
notExt == <<rvars, cvars, subvars, watchvars, setupvars, lazyvars, cbvars>>

vars == <<rvars, cvars, ovars>>

\* ------------------------------------------------------ status documents
\* a step label of SetupStatus, with the index the label carries
Step(name, i) == <<name, i>>

\* writeFile puts the text on disk in steps: after the truncation the file is
\* empty, then holds a prefix, then the whole text
DocChunks == 2

\* sleep(500) of the SetupWaiter, in units of 500 ms
SleepTicks == 1

\* timeout = parseInt(N) * 1000, in units of 500 ms
Timeout == 2 * TimeoutSeconds

\* `const start = Date.now()` of the SetupWaiter
waitStart == 0

\* the clock is followed until the deadline has passed
MaxTime == Timeout + SleepTicks

\* no SetupStatus object yet
NoDoc == [status |-> "none", step |-> Step("none", 0), services |-> 0, devServer |-> FALSE,
          error |-> FALSE]

\* a loop pass of the SetupWaiter that found no file
Absent == [status |-> "absent", step |-> Step("none", 0), error |-> FALSE, len |-> 0]

\* ------------------------------------------------- EventReporter helpers
\* variant of Push: the event is inserted at the head
PushAtHead(q, e) == <<e>> \o q

\* Array.prototype.push
Push(q, e) == Append(q, e)

\* Array.prototype.unshift
Unshift(q, e) == <<e>> \o q

\* variant of FlushReturnsEarly: the isFlushing test is missing
FlushReturnsEarlyNoGuard(flushing, q) == Len(q) = 0

\* flush(): the early return of the isFlushing guard
FlushReturnsEarly(flushing, q) == flushing \/ Len(q) = 0

\* variant of AfterTransportError: the event is re-queued at the tail
AfterTransportErrorAtTail(q, e) == Append(q, e)

\* sendEvent(): the queue after fetch() rejected (catch block)
AfterTransportError(q, e) == Unshift(q, e)

\* sendEvent(): the queue after a response with !response.ok whose body
\* was read and logged
AfterHttpError(q, e) == q

\* variant of DrainWaits: only the queue length is tested
DrainWaitsQueueOnly(q, flushing) == Len(q) > 0

\* drain(): the loop condition
DrainWaits(q, flushing) == Len(q) > 0 \/ flushing

\* variant of LoopContinues: the pass ends after its first send
LoopContinuesNever(q) == FALSE

\* flush(): while (this.eventQueue.length > 0)
LoopContinues(q) == Len(q) > 0

LogEntry(o, e) == [op |-> o, ev |-> e]

Range(q) == {q[i] : i \in 1..Len(q)}

\* ------------------------------------------------------------------ Init
Init ==
    /\ eventQueue = <<>>
    /\ isFlushing = FALSE
    /\ pc = [c \in Events |-> "idle"]
    /\ cur = [c \in Events |-> 0]
    /\ reported = 0
    /\ failures = 0
    /\ drainPc = "idle"
    /\ drainWaited = FALSE
    /\ log = <<>>
    /\ cpc = "start"
    /\ batch = <<>>
    /\ idx = 0
    /\ processedMessageIds = <<>>
    /\ prompts = <<>>
    /\ emitted = <<>>
    /\ aborted = FALSE
    /\ watching = FALSE
    /\ abortFile = FALSE
    /\ signals = 0
    /\ created = {}
    /\ gwDelivered = {}
    /\ gwProcessed = {}
    /\ qcFailures = 0
    /\ qcLog = <<>>
    /\ behavior = [m \in Msgs |-> "none"]
    /\ drainAwaited = FALSE
    /\ sessMsg = 0
    /\ sessOpen = FALSE
    /\ sessDeltas = [m \in 1..MaxSessionMsgs |-> <<>>]
    /\ currentMessageId = 0
    /\ currentMessageContent = <<>>
    /\ parkedEnds = 0
    /\ subEvents = <<>>
    /\ onAbortCalls = 0
    /\ wlog = <<>>
    /\ spc = "start"
    /\ wpc = "idle"
    /\ status = NoDoc
    /\ statusFile = [exists |-> FALSE, doc |-> NoDoc, len |-> 0]
    /\ cfgServices = 0
    /\ cfgCommands = 0
    /\ cfgDev = FALSE
    /\ cmdDone = 0
    /\ provisioned = FALSE
    /\ provLog = <<>>
    /\ wtpc = "head"
    /\ reads = {}
    /\ lastObs = Absent
    /\ lastStep = Step("none", 0)
    /\ stepLog = <<>>
    /\ wakeAt = 0
    /\ now = 0
    /\ hasPulled = FALSE
    /\ branchIsDirty = FALSE
    /\ tpc = [h \in 1..MaxToolCalls |-> "idle"]
    /\ agentEnds = 0
    /\ gitLog = <<>>
    /\ messageStartSent = FALSE
    /\ updPc = [k \in (1..MaxSessionMsgs) \X (1..MaxDeltas) |-> "none"]
    /\ abortPc = "idle"
    /\ abortEv = 0
    /\ sessionAborts = 0

\* --------------------------------------------------------- EventReporter
\* report(event): push, then flush() up to its first await (the fetch of
\* sendEvent) or its early return.  The call is identified by its event.
ReportCall ==
    /\ reported < MaxEvents
    /\ LET e == reported + 1
           q == Push(eventQueue, e)
       IN /\ reported' = e
          /\ IF FlushReturnsEarly(isFlushing, q)
             THEN /\ eventQueue' = q
                  /\ log' = Append(log, LogEntry("report", e))
                  /\ UNCHANGED <<isFlushing, pc, cur>>
             ELSE /\ isFlushing' = TRUE
                  /\ eventQueue' = Tail(q)
                  /\ pc' = [pc EXCEPT ![e] = "fetch"]
                  /\ cur' = [cur EXCEPT ![e] = Head(q)]
                  /\ log' = log \o <<LogEntry("report", e), LogEntry("send", Head(q))>>

\* a report() call of the Coordinator or of a session callback
Report ==
    /\ ReportCall
    /\ UNCHANGED <<failures, drainPc, drainWaited, cvars, ovars>>

\* fetch() resolved with response.ok: sendEvent returns
FetchOk(c) ==
    /\ pc[c] = "fetch"
    /\ pc' = [pc EXCEPT ![c] = "loop"]
    /\ log' = Append(log, LogEntry("ok", cur[c]))
    /\ UNCHANGED <<eventQueue, isFlushing, cur, reported, failures, drainPc, drainWaited, cvars, ovars>>

\* fetch() resolved with !response.ok: sendEvent awaits response.text()
FetchHttpError(c) ==
    /\ pc[c] = "fetch"
    /\ failures < MaxFailures
    /\ failures' = failures + 1
    /\ pc' = [pc EXCEPT ![c] = "text"]
    /\ log' = Append(log, LogEntry("http", cur[c]))
    /\ UNCHANGED <<eventQueue, isFlushing, cur, reported, drainPc, drainWaited, cvars, ovars>>

\* response.text() resolved: console.error, sendEvent returns
TextResolved(c) ==
    /\ pc[c] = "text"
    /\ eventQueue' = AfterHttpError(eventQueue, cur[c])
    /\ pc' = [pc EXCEPT ![c] = "loop"]
    /\ log' = Append(log, LogEntry("logged", cur[c]))
    /\ UNCHANGED <<isFlushing, cur, reported, failures, drainPc, drainWaited, cvars, ovars>>

\* response.text() rejected: the catch block of sendEvent runs
TextRejected(c) ==
    /\ pc[c] = "text"
    /\ failures < MaxFailures
    /\ failures' = failures + 1
    /\ eventQueue' = AfterTransportError(eventQueue, cur[c])
    /\ pc' = [pc EXCEPT ![c] = "loop"]
    /\ log' = Append(log, LogEntry("requeue", cur[c]))
    /\ UNCHANGED <<isFlushing, cur, reported, drainPc, drainWaited, cvars, ovars>>

\* fetch() rejected (transport error): the catch block of sendEvent runs
FetchTransportError(c) ==
    /\ pc[c] = "fetch"
    /\ failures < MaxFailures
    /\ failures' = failures + 1
    /\ eventQueue' = AfterTransportError(eventQueue, cur[c])
    /\ pc' = [pc EXCEPT ![c] = "loop"]
    /\ log' = log \o <<LogEntry("neterr", cur[c]), LogEntry("requeue", cur[c])>>
    /\ UNCHANGED <<isFlushing, cur, reported, drainPc, drainWaited, cvars, ovars>>

\* flush(): continuation after `await this.sendEvent(event)`: the while
\* test, then either the next shift and send or the finally block
FlushLoop(c) ==
    /\ pc[c] = "loop"
    /\ IF LoopContinues(eventQueue)
       THEN /\ eventQueue' = Tail(eventQueue)
            /\ cur' = [cur EXCEPT ![c] = Head(eventQueue)]
            /\ pc' = [pc EXCEPT ![c] = "fetch"]
            /\ log' = Append(log, LogEntry("send", Head(eventQueue)))
            /\ UNCHANGED isFlushing
       ELSE /\ isFlushing' = FALSE
            /\ pc' = [pc EXCEPT ![c] = "idle"]
            /\ log' = Append(log, LogEntry("passend", c))
            /\ UNCHANGED <<eventQueue, cur>>
    /\ UNCHANGED <<reported, failures, drainPc, drainWaited, cvars, ovars>>

\* drain(): first evaluation of the loop condition
DrainCall ==
    /\ drainPc = "idle"
    /\ drainPc' = IF DrainWaits(eventQueue, isFlushing) THEN "polling" ELSE "resolved"
    /\ drainWaited' = DrainWaits(eventQueue, isFlushing)
    /\ UNCHANGED <<eventQueue, isFlushing, pc, cur, reported, failures, log, cvars, ovars>>

\* drain(): the 100 ms timer fired, the loop condition is evaluated again
DrainTick ==
    /\ drainPc = "polling"
    /\ ~DrainWaits(eventQueue, isFlushing)
    /\ drainPc' = "resolved"
    /\ UNCHANGED <<eventQueue, isFlushing, pc, cur, reported, failures, drainWaited, log, cvars, ovars>>

NextReporter ==
    \/ Report
    \/ \E c \in Events : FetchOk(c)
    \/ \E c \in Events : FetchHttpError(c)
    \/ \E c \in Events : TextResolved(c)
    \/ \E c \in Events : TextRejected(c)
    \/ \E c \in Events : FetchTransportError(c)
    \/ \E c \in Events : FlushLoop(c)
    \/ DrainCall
    \/ DrainTick

SpecReporter == Init /\ [][NextReporter]_vars

\* ------------------------------------------------------------ QueueClient
Answers == {"ok", "http_error", "transport_error"}

Returned(v) == [raised |-> FALSE, value |-> v]

Thrown == [raised |-> TRUE, value |-> "error"]

\* a success response whose body is not what the Gateway promises: text
\* that is not JSON, or a JSON object without a messages member
BodyAnswers == {"ok_not_json", "ok_no_messages"}

\* data.messages of an object without that member: the call returns
\* normally, and what it returns is undefined, not a list
ReturnedUndefined == [raised |-> FALSE, value |-> <<>>, undefined |-> TRUE]

\* messages.length where messages is undefined: a TypeError
LengthRaises(r) == "undefined" \in DOMAIN r

\* variant of Caught: the try/catch is missing, the exception propagates
NotCaught(r, fallback) == r

\* try { ... } catch (error) { console.error(...); return fallback; }
Caught(r, fallback) == IF r.raised THEN Returned(fallback) ELSE r

\* fetchPendingMessages(): the body of its try block, for the answer the
\* Gateway gives and the messages it holds
FetchBody(answer, messages) ==
    CASE answer = "transport_error" -> Thrown
      [] answer = "http_error" -> Returned(<<>>)
      [] answer = "ok_not_json" -> Thrown
      [] answer = "ok_no_messages" -> ReturnedUndefined
      [] OTHER -> Returned(messages)

FetchPendingMessages(answer, messages) == Caught(FetchBody(answer, messages), <<>>)

\* updateStatus(): the body of its try block
UpdateStatusBody(answer) ==
    CASE answer = "transport_error" -> Thrown
      [] answer = "http_error" -> Returned(FALSE)
      [] OTHER -> Returned(TRUE)

UpdateStatus(answer) == Caught(UpdateStatusBody(answer), FALSE)

\* markDelivered() / markProcessed()
MarkDelivered(answer) == UpdateStatus(answer)

MarkProcessed(answer) == UpdateStatus(answer)

QcCall(o, m) == [kind |-> "call", op |-> o, id |-> m, answer |-> "none", raised |-> FALSE, value |-> "none"]

QcReturn(o, m, answer, r) ==
    [kind |-> "return", op |-> o, id |-> m, answer |-> answer, raised |-> r.raised, value |-> r.value]

\* ---------------------------------------------------------------- session
\* variant of CombinedPrompt: the texts are joined in reverse order
CombinedPromptReversed(msgs) == [i \in 1..Len(msgs) |-> msgs[Len(msgs) + 1 - i]]

\* initialMessages.map(msg => `[${msg.senderName}]: ${msg.text}`).join("\n\n"):
\* the message texts (identified by their ids) in the order of the prompt
CombinedPrompt(msgs) == [i \in 1..Len(msgs) |-> msgs[i]]

\* streamingBehavior: msg.behavior === "steer" ? "steer" : "followUp"
StreamingBehavior(b) == IF b = "steer" THEN "steer" ELSE "followUp"

\* session.prompt(text, { streamingBehavior }) is started
PromptCall(ids, mode) ==
    [kind |-> "call", op |-> "prompt", id |-> ids, answer |-> "none", raised |-> FALSE, value |-> mode]

\* session.prompt returned or threw
PromptReturn(ids, ok) ==
    [kind |-> "return", op |-> "prompt", id |-> ids, answer |-> "none", raised |-> ~ok, value |-> "none"]

\* ---------------------------------------------------------------- Gateway
\* the messages the Gateway returns from GET /queue: those it holds that
\* were acknowledged neither delivered nor processed, oldest first
PendingSet == created \ (gwDelivered \cup gwProcessed)

PendingMessages ==
    [i \in 1..Cardinality(PendingSet) |->
        CHOOSE m \in PendingSet : Cardinality({x \in PendingSet : x < m}) = i - 1]

\* an answer other than ok is one of the bounded number of failures
AnswerAllowed(answer) == answer = "ok" \/ qcFailures < MaxQcFailures

Counted(answer) == IF answer = "ok" THEN qcFailures ELSE qcFailures + 1

\* whether the Gateway recorded the request: yes when it answered ok, no
\* when it answered with an error status, either when the transport failed
GatewayApplies(answer, applied) ==
    /\ answer = "ok" => applied
    /\ answer = "http_error" => ~applied

\* the Gateway enqueues a message for the mission
GatewayEnqueue(b) ==
    /\ Cardinality(created) < MaxMsgs
    /\ created' = created \cup {Cardinality(created) + 1}
    /\ behavior' = [behavior EXCEPT ![Cardinality(created) + 1] = b]
    /\ UNCHANGED <<rvars, ovars, drainAwaited, cpc, batch, idx, processedMessageIds, prompts, emitted, aborted,
                   watching, abortFile, signals, gwDelivered, gwProcessed, qcFailures, qcLog>>

\* the Gateway creates the abort signal file (remote exec of touch)
GatewayAbort ==
    /\ signals < MaxSignals
    /\ ~abortFile
    /\ signals' = signals + 1
    /\ abortFile' = TRUE
    /\ UNCHANGED <<rvars, ovars, behavior, drainAwaited, cpc, batch, idx, processedMessageIds, prompts, emitted, aborted,
                   watching, created, gwDelivered, gwProcessed, qcFailures, qcLog>>

\* ----------------------------------------------------------- AbortWatcher
\* variant of TickReturnsEarly: the callback does not test this.aborted
TickReturnsEarlyNever(a) == FALSE

\* `if (this.aborted) return` at the head of the setInterval callback
TickReturnsEarly(a) == a

\* the setInterval callback of start() when it detects the file: aborted,
\* stop(), unlinkSync (which may throw, ignored), onAbort()
TickDetects ==
    /\ watching
    /\ ~TickReturnsEarly(aborted)
    /\ abortFile
    /\ Len(wlog) < MaxWatcherOps
    /\ aborted' = TRUE
    /\ watching' = FALSE
    /\ onAbortCalls' = onAbortCalls + 1
    /\ \E unlinked \in BOOLEAN :
           /\ abortFile' = ~unlinked
           /\ wlog' = Append(wlog, IF unlinked THEN "detect" ELSE "detectUnlinkFailed")

\* the detecting tick with an onAbort that touches nothing else
WatcherTick ==
    /\ TickDetects
    /\ UNCHANGED <<notWatch, behavior, drainAwaited, cpc, batch, idx, processedMessageIds, prompts, emitted, signals,
                   created, gwDelivered, gwProcessed, qcFailures, qcLog>>

\* the setInterval callback when it returns without detecting anything
WatcherTickNoop ==
    /\ watching
    /\ TickReturnsEarly(aborted) \/ ~abortFile
    /\ Len(wlog) < MaxWatcherOps
    /\ wlog' = Append(wlog, "tick")
    /\ UNCHANGED <<notWatch, cvars, onAbortCalls>>

\* start(onAbort): a no-op while an interval is installed
WatcherStart ==
    /\ Len(wlog) < MaxWatcherOps
    /\ watching' = TRUE
    /\ wlog' = Append(wlog, "start")
    /\ UNCHANGED <<notWatch, onAbortCalls, behavior, drainAwaited, cpc, batch, idx, processedMessageIds, prompts,
                   emitted, aborted, abortFile, signals, created, gwDelivered, gwProcessed, qcFailures, qcLog>>

\* variant of WatcherStop: the interval is left installed
WatcherStopKeepsInterval ==
    /\ Len(wlog) < MaxWatcherOps
    /\ wlog' = Append(wlog, "stop")
    /\ UNCHANGED <<notWatch, onAbortCalls, cvars>>

\* stop(): clears the interval if there is one
WatcherStop ==
    /\ Len(wlog) < MaxWatcherOps
    /\ watching' = FALSE
    /\ wlog' = Append(wlog, "stop")
    /\ UNCHANGED <<notWatch, onAbortCalls, behavior, drainAwaited, cpc, batch, idx, processedMessageIds, prompts,
                   emitted, aborted, abortFile, signals, created, gwDelivered, gwProcessed, qcFailures, qcLog>>

\* the Gateway creates the abort signal file, at any moment of the watcher's life
TouchAbortFile ==
    /\ Len(wlog) < MaxWatcherOps
    /\ ~abortFile
    /\ abortFile' = TRUE
    /\ signals' = signals + 1
    /\ wlog' = Append(wlog, "touch")
    /\ UNCHANGED <<notWatch, onAbortCalls, behavior, drainAwaited, cpc, batch, idx, processedMessageIds, prompts,
                   emitted, aborted, watching, created, gwDelivered, gwProcessed, qcFailures, qcLog>>

NextWatcher ==
    \/ WatcherStart
    \/ WatcherStop
    \/ TouchAbortFile
    \/ WatcherTick
    \/ WatcherTickNoop

SpecWatcher == Init /\ [][NextWatcher]_vars

\* ------------------------------------------------ onAbort callback of runAgent
\* what the callback leaves alone, the reporter and the watcher apart
notCallback == <<failures, drainPc, drainWaited, cpc, batch, idx, processedMessageIds, prompts, emitted,
                 signals, created, gwDelivered, gwProcessed, qcFailures, qcLog, behavior, drainAwaited,
                 subvars, setupvars, extvars, lazyvars>>

\* reporter.sendSystemMessage(text, level): a system event handed to report()
SendSystemMessage == ReportCall

\* `await reporter.sendSystemMessage(...)` resolved: the flush() of that
\* report() call returned, at once or at the end of the pass it started
SystemMessageResolved(e) == pc[e] = "idle"

\* the detecting tick calls onAbort(): the callback runs up to its first
\* await, the system message "Abort requested, stopping agent..."
OnAbort ==
    /\ abortPc = "idle"
    /\ TickDetects
    /\ SendSystemMessage
    /\ abortEv' = reported + 1
    /\ abortPc' = "requestedW"
    /\ UNCHANGED <<notCallback, sessionAborts>>

\* await session.abort(), once the system message resolved
CallSessionAbort ==
    /\ abortPc = "requestedW"
    /\ SystemMessageResolved(abortEv)
    /\ sessionAborts' = sessionAborts + 1
    /\ abortPc' = "abortW"
    /\ UNCHANGED <<rvars, cvars, subvars, watchvars, setupvars, extvars, lazyvars, abortEv>>

\* session.abort() resolved: the system message "Agent aborted"
SessionAbortReturn ==
    /\ abortPc = "abortW"
    /\ SendSystemMessage
    /\ abortEv' = reported + 1
    /\ abortPc' = "abortedW"
    /\ UNCHANGED <<notCallback, watchvars, aborted, watching, abortFile, sessionAborts>>

\* the last system message resolved: the callback ends
OnAbortEnd ==
    /\ abortPc = "abortedW"
    /\ SystemMessageResolved(abortEv)
    /\ abortPc' = "done"
    /\ UNCHANGED <<rvars, cvars, subvars, watchvars, setupvars, extvars, lazyvars, abortEv, sessionAborts>>

\* the onAbort callback with the EventReporter it reports to and the
\* AbortWatcher that calls it
NextAbort ==
    \/ Report
    \/ \E c \in Events : FetchOk(c)
    \/ \E c \in Events : FetchHttpError(c)
    \/ \E c \in Events : TextResolved(c)
    \/ \E c \in Events : FetchTransportError(c)
    \/ \E c \in Events : FlushLoop(c)
    \/ (~watching /\ ~aborted /\ WatcherStart)
    \/ (signals < MaxSignals /\ TouchAbortFile)
    \/ OnAbort
    \/ CallSessionAbort
    \/ SessionAbortReturn
    \/ OnAbortEnd

SpecAbort == Init /\ [][NextAbort]_vars

\* ---------------------------------------------------------- setup process
\* the awaits of main that are status writes
WritePoints == {"wInit", "wInstall", "wEnv", "wCommand", "wDevStart", "wDevWait", "wReady", "wFailed"}

\* the status writes whose rejection is caught at the call (`.catch(() => {})`)
Swallowed(p) == p \in WritePoints \ {"wReady"}

Target(p, st) == [pc |-> p, st |-> st]

\* status.status = "ready"; status.step = undefined; writeStatus
ReadyT(st) == Target("wReady", [st EXCEPT !.status = "ready", !.step = Step("none", 0)])

\* step 5: the dev server, when one is configured
DevT(st) ==
    IF cfgDev
    THEN Target("wDevStart", [st EXCEPT !.step = Step("starting dev server", 0)])
    ELSE ReadyT(st)

\* variant of CommandsT: the setup commands are skipped
CommandsTSkipped(st, done) == DevT(st)

\* step 4: the for loop over the setup commands
CommandsT(st, done) ==
    IF done < cfgCommands
    THEN Target("wCommand", [st EXCEPT !.step = Step("setup command", done + 1)])
    ELSE DevT(st)

\* step 1: the for loop over the services
ServicesT(st) ==
    IF st.services < cfgServices
    THEN Target("wInstall", [st EXCEPT !.step = Step("installing", st.services + 1)])
    ELSE Target("reloadConfig", st)

\* variant of CatchT: the catch block writes the status object as it is
CatchTKeepsStatus(st) == Target("wFailed", st)

\* the catch block of main up to its write
CatchT(st) == Target("wFailed", [st EXCEPT !.status = "failed", !.error = TRUE])

\* main runs on to its next await
Jump(t) ==
    /\ spc' = t.pc
    /\ status' = t.st
    /\ wpc' = IF t.pc \in WritePoints THEN "open" ELSE "idle"
    /\ provisioned' = (provisioned \/ t.pc = "wReady")

\* what follows the await of a status write that resolved (ok) or rejected:
\* a rejection that is not caught at the call reaches the catch block of main
AfterWrite(p, ok, keepAlive) ==
    IF ~ok /\ ~Swallowed(p)
    THEN CatchT(status)
    ELSE CASE p = "wInit" -> Target("loadConfig", status)
           [] p = "wInstall" -> Target("startService", status)
           [] p = "wEnv" -> Target("env", status)
           [] p = "wCommand" -> Target("runCommand", status)
           [] p = "wDevStart" -> Target("wDevWait", [status EXCEPT !.devServer = TRUE,
                                                                   !.step = Step("waiting for dev server", 0)])
           [] p = "wDevWait" -> Target("waitForPort", status)
           [] p = "wReady" -> Target(IF keepAlive /\ cfgDev THEN "keepAlive" ELSE "exit0", status)
           [] p = "wFailed" -> Target("exit1", status)

\* main up to its first await: argument and secrets checks, the status object,
\* updateStatus("initializing"); the configuration is what loadConfig will find
SetupStart(argsOk, n, c, d) ==
    /\ spc = "start"
    /\ cfgServices' = n
    /\ cfgCommands' = c
    /\ cfgDev' = d
    /\ IF argsOk
       THEN Jump(Target("wInit", [NoDoc EXCEPT !.status = "running", !.step = Step("initializing", 0)]))
       ELSE Jump(Target("exit1", status))
    /\ UNCHANGED <<notSetup, waitvars, provLog, statusFile, cmdDone>>

\* writeFile opens the status file for writing, which truncates it
WriteOpen(ok) ==
    /\ spc \in WritePoints
    /\ wpc = "open"
    /\ IF ok
       THEN /\ statusFile' = [exists |-> TRUE, doc |-> status, len |-> 0]
            /\ wpc' = "data"
            /\ UNCHANGED <<spc, status, provisioned>>
       ELSE /\ \E keepAlive \in BOOLEAN : Jump(AfterWrite(spc, FALSE, keepAlive))
            /\ UNCHANGED statusFile
    /\ UNCHANGED <<notSetup, waitvars, provLog, cfgServices, cfgCommands, cfgDev, cmdDone>>

\* writeFile writes the next part of JSON.stringify(status)
WriteData(ok) ==
    /\ spc \in WritePoints
    /\ wpc = "data"
    /\ IF ok
       THEN /\ statusFile' = [statusFile EXCEPT !.len = @ + 1]
            /\ wpc' = IF statusFile.len + 1 = DocChunks THEN "close" ELSE "data"
            /\ UNCHANGED <<spc, status, provisioned>>
       ELSE /\ \E keepAlive \in BOOLEAN : Jump(AfterWrite(spc, FALSE, keepAlive))
            /\ UNCHANGED statusFile
    /\ UNCHANGED <<notSetup, waitvars, provLog, cfgServices, cfgCommands, cfgDev, cmdDone>>

\* writeFile closes the file; the promise resolves, or rejects with the
\* error the close reported
WriteClose(ok) ==
    /\ spc \in WritePoints
    /\ wpc = "close"
    /\ \E keepAlive \in BOOLEAN : Jump(AfterWrite(spc, ok, keepAlive))
    /\ UNCHANGED <<notSetup, waitvars, provLog, statusFile, cfgServices, cfgCommands, cfgDev, cmdDone>>

\* await loadConfig(resolvedWorkspace, context), first call
LoadConfig(ok) ==
    /\ spc = "loadConfig"
    /\ Jump(IF ok THEN ServicesT(status) ELSE CatchT(status))
    /\ UNCHANGED <<notSetup, waitvars, provLog, statusFile, cfgServices, cfgCommands, cfgDev, cmdDone>>

\* await startService(serviceConfig); status.services.push(instance)
StartService(ok) ==
    /\ spc = "startService"
    /\ Jump(IF ok THEN ServicesT([status EXCEPT !.services = @ + 1]) ELSE CatchT(status))
    /\ provLog' = IF ok THEN Append(provLog, Step("service", status.services + 1)) ELSE provLog
    /\ UNCHANGED <<notSetup, waitvars, statusFile, cfgServices, cfgCommands, cfgDev, cmdDone>>

\* await loadConfig, second call; updateStatus("configuring environment")
ReloadConfig(ok) ==
    /\ spc = "reloadConfig"
    /\ Jump(IF ok
            THEN Target("wEnv", [status EXCEPT !.step = Step("configuring environment", 0)])
            ELSE CatchT(status))
    /\ UNCHANGED <<notSetup, waitvars, provLog, statusFile, cfgServices, cfgCommands, cfgDev, cmdDone>>

\* steps 2 and 3: copyEnvFile, writeEnvVars, the exports
ConfigureEnv(ok) ==
    /\ spc = "env"
    /\ Jump(IF ok THEN CommandsT(status, 0) ELSE CatchT(status))
    /\ provLog' = IF ok THEN Append(provLog, Step("env", 0)) ELSE provLog
    /\ UNCHANGED <<notSetup, waitvars, statusFile, cfgServices, cfgCommands, cfgDev, cmdDone>>

\* await runCommand(cmd, resolvedWorkspace): rejects on a non-zero exit code
RunCommand(ok) ==
    /\ spc = "runCommand"
    /\ cmdDone' = IF ok THEN cmdDone + 1 ELSE cmdDone
    /\ Jump(IF ok THEN CommandsT(status, cmdDone + 1) ELSE CatchT(status))
    /\ provLog' = IF ok THEN Append(provLog, Step("command", cmdDone + 1)) ELSE provLog
    /\ UNCHANGED <<notSetup, waitvars, statusFile, cfgServices, cfgCommands, cfgDev>>

\* await waitForPort(devServer.port, timeout)
WaitForPort(ok) ==
    /\ spc = "waitForPort"
    /\ Jump(IF ok THEN ReadyT(status) ELSE CatchT(status))
    /\ provLog' = IF ok THEN Append(provLog, Step("port", 0)) ELSE provLog
    /\ UNCHANGED <<notSetup, waitvars, statusFile, cfgServices, cfgCommands, cfgDev, cmdDone>>

\* SIGINT or SIGTERM while main keeps the dev server alive
Shutdown ==
    /\ spc = "keepAlive"
    /\ spc' = "exit0"
    /\ UNCHANGED <<notSetup, waitvars, provLog, wpc, status, statusFile, cfgServices, cfgCommands, cfgDev, cmdDone,
                   provisioned>>

\* ---------------------------------------------------- git-sync extension
\* the tool_call handlers, one per tool call, in the order of the calls
ToolCalls == 1..MaxToolCalls

GitEntry(o, h, dirty) == [op |-> o, h |-> h, dirty |-> dirty]

\* if (hasPulled) return
AlreadyPulled(pulled) == pulled

\* pi.on("tool_call"): the handler up to its first await or its return;
\* modifies says whether the tool is write, edit or a bash write command
ToolCall(h, modifies) ==
    /\ tpc[h] = "idle"
    /\ \A g \in ToolCalls : g < h => tpc[g] # "idle"
    /\ IF ~modifies \/ AlreadyPulled(hasPulled)
       THEN tpc' = [tpc EXCEPT ![h] = "done"] /\ UNCHANGED <<hasPulled, gitLog>>
       ELSE IF ~branchIsDirty
            THEN tpc' = [tpc EXCEPT ![h] = "checkDirty"] /\ UNCHANGED <<hasPulled, gitLog>>
            ELSE /\ hasPulled' = TRUE
                 /\ tpc' = [tpc EXCEPT ![h] = "done"]
                 /\ UNCHANGED gitLog
    /\ UNCHANGED <<notExt, branchIsDirty, agentEnds>>

\* branchIsDirty = await checkDirty(): git status answers (an error counts
\* as dirty); then the pull is started, or skipped on a dirty tree
CheckDirtyReturn(h, dirty) ==
    /\ tpc[h] = "checkDirty"
    /\ branchIsDirty' = dirty
    /\ hasPulled' = TRUE
    /\ IF ~dirty
       THEN /\ tpc' = [tpc EXCEPT ![h] = "pullLatest"]
            /\ gitLog' = gitLog \o <<GitEntry("status", h, dirty), GitEntry("pull", h, dirty)>>
       ELSE /\ tpc' = [tpc EXCEPT ![h] = "done"]
            /\ gitLog' = Append(gitLog, GitEntry("status", h, dirty))
    /\ UNCHANGED <<notExt, agentEnds>>

\* await pullLatest() returns, whatever git pull answered; the recheck starts
PullReturn(h) ==
    /\ tpc[h] = "pullLatest"
    /\ tpc' = [tpc EXCEPT ![h] = "recheck"]
    /\ UNCHANGED <<notExt, hasPulled, branchIsDirty, agentEnds, gitLog>>

\* branchIsDirty = await checkDirty(), after the pull
RecheckReturn(h, dirty) ==
    /\ tpc[h] = "recheck"
    /\ branchIsDirty' = dirty
    /\ tpc' = [tpc EXCEPT ![h] = "done"]
    /\ gitLog' = Append(gitLog, GitEntry("status", h, dirty))
    /\ UNCHANGED <<notExt, hasPulled, agentEnds>>

\* pi.on("agent_end"): the state is reset for the next session
AgentEnd ==
    /\ agentEnds < MaxAgentEnds
    /\ agentEnds' = agentEnds + 1
    /\ hasPulled' = FALSE
    /\ branchIsDirty' = FALSE
    /\ gitLog' = Append(gitLog, GitEntry("agent_end", 0, FALSE))
    /\ UNCHANGED <<notExt, tpc>>

NextGitSync ==
    \/ \E h \in ToolCalls, modifies \in BOOLEAN : ToolCall(h, modifies)
    \/ \E h \in ToolCalls, dirty \in BOOLEAN : CheckDirtyReturn(h, dirty)
    \/ \E h \in ToolCalls : PullReturn(h)
    \/ \E h \in ToolCalls, dirty \in BOOLEAN : RecheckReturn(h, dirty)
    \/ AgentEnd

SpecGitSync == Init /\ [][NextGitSync]_vars

\* ----------------------------------------------------------- SetupWaiter
\* what readFile returns: the document on disk and how much of its text is there
Content(f) == [status |-> f.doc.status, step |-> f.doc.step, error |-> f.doc.error, len |-> f.len]

\* JSON.parse of a content: throws unless the document is complete
Parses(c) == c.len = DocChunks

\* variant of WithinTimeout: the loop gives up one sleep early
WithinTimeoutShort(t) == t - waitStart < Timeout - SleepTicks

\* `Date.now() - start < timeout`
WithinTimeout(t) == t - waitStart < Timeout

\* variant of LogsStep: the step is logged on every pass
LogsStepAlways(c, last) == c.step # Step("none", 0)

\* `if (status.step && status.step !== lastStep)`
LogsStep(c, last) == c.step # Step("none", 0) /\ c.step # last

\* variant of Outcome: a running document ends the wait with success
OutcomeNotRunning(c) ==
    IF c.status \in {"ready", "running"} THEN "exit0"
    ELSE IF c.status = "failed" THEN "exit1"
    ELSE "sleep"

\* the exits of a loop pass that parsed a document
Outcome(c) ==
    IF c.status = "ready" THEN "exit0"
    ELSE IF c.status = "failed" THEN "exit1"
    ELSE "sleep"

\* `while (Date.now() - start < timeout)`, then `await access(statusPath)`;
\* process.exit(2) after the loop
WaiterHead ==
    /\ wtpc = "head"
    /\ wtpc' = IF WithinTimeout(now) THEN "access" ELSE "exit2"
    /\ UNCHANGED <<notSetup, mainvars, reads, lastObs, lastStep, stepLog, wakeAt, now>>

\* access settles: it rejects when the file is absent (caught, sleep)
WaiterAccess ==
    /\ wtpc = "access"
    /\ IF statusFile.exists
       THEN /\ wtpc' = "readFile"
            /\ UNCHANGED <<lastObs, wakeAt>>
       ELSE /\ wtpc' = "sleep"
            /\ lastObs' = Absent
            /\ wakeAt' = now + SleepTicks
    /\ UNCHANGED <<notSetup, mainvars, reads, lastStep, stepLog, now>>

\* readFile settles; JSON.parse; the step log; exit on ready or failed,
\* else (also on a parse error or a document without the fields) sleep
WaiterReadFile ==
    /\ wtpc = "readFile"
    /\ LET c == Content(statusFile)
           good == Parses(c) /\ c.status # "malformed"
       IN /\ reads' = reads \cup {[status |-> c.status, len |-> c.len]}
          /\ lastObs' = c
          /\ IF good /\ LogsStep(c, lastStep)
             THEN lastStep' = c.step /\ stepLog' = Append(stepLog, c.step)
             ELSE UNCHANGED <<lastStep, stepLog>>
          /\ wtpc' = IF good THEN Outcome(c) ELSE "sleep"
          /\ wakeAt' = now + SleepTicks
    /\ UNCHANGED <<notSetup, mainvars, now>>

\* the timer of sleep(500) fires, at its due time or later
WaiterSleep ==
    /\ wtpc = "sleep"
    /\ now >= wakeAt
    /\ wtpc' = "head"
    /\ UNCHANGED <<notSetup, mainvars, reads, lastObs, lastStep, stepLog, wakeAt, now>>

\* 500 ms pass; the clock is followed up to MaxTime and until a pending
\* timer is due
Tick ==
    /\ now < MaxTime \/ (wtpc = "sleep" /\ now < wakeAt)
    /\ now' = now + 1
    /\ UNCHANGED <<notSetup, mainvars, wtpc, reads, lastObs, lastStep, stepLog, wakeAt>>

\* something other than this setup run left a file that parses as JSON but is
\* no status document
ForeignFile ==
    /\ spc = "start"
    /\ ~statusFile.exists
    /\ statusFile' = [exists |-> TRUE, doc |-> [NoDoc EXCEPT !.status = "malformed"], len |-> DocChunks]
    /\ UNCHANGED <<notSetup, waitvars, spc, wpc, status, cfgServices, cfgCommands, cfgDev, cmdDone, provisioned,
                   provLog>>

NextWaiter ==
    \/ WaiterHead
    \/ WaiterAccess
    \/ WaiterReadFile
    \/ WaiterSleep

\* the setup process alone
NextSetup ==
    \/ \E argsOk, d \in BOOLEAN : \E n \in 0..MaxServices : \E c \in 0..MaxCommands :
           SetupStart(argsOk, n, c, d)
    \/ \E ok \in BOOLEAN : WriteOpen(ok)
    \/ \E ok \in BOOLEAN : WriteData(ok)
    \/ \E ok \in BOOLEAN : WriteClose(ok)
    \/ \E ok \in BOOLEAN : LoadConfig(ok)
    \/ \E ok \in BOOLEAN : StartService(ok)
    \/ \E ok \in BOOLEAN : ReloadConfig(ok)
    \/ \E ok \in BOOLEAN : ConfigureEnv(ok)
    \/ \E ok \in BOOLEAN : RunCommand(ok)
    \/ \E ok \in BOOLEAN : WaitForPort(ok)
    \/ Shutdown

SpecSetup == Init /\ [][NextSetup]_vars

\* the setup process of a workspace that configures no service, no setup
\* command and no dev server
NextSetupPlain ==
    \/ \E argsOk \in BOOLEAN : SetupStart(argsOk, 0, 0, FALSE)
    \/ \E ok \in BOOLEAN : WriteOpen(ok)
    \/ \E ok \in BOOLEAN : WriteData(ok)
    \/ \E ok \in BOOLEAN : WriteClose(ok)
    \/ \E ok \in BOOLEAN : LoadConfig(ok)
    \/ \E ok \in BOOLEAN : ReloadConfig(ok)
    \/ \E ok \in BOOLEAN : ConfigureEnv(ok)

\* that setup process and a SetupWaiter polling the status file
NextStatusFile == NextSetupPlain \/ NextWaiter \/ Tick \/ ForeignFile

SpecStatusFile == Init /\ [][NextStatusFile]_vars

\* an earlier setup run of the same workspace ended and left its terminal
\* document in the status file; main does not remove it when it starts
StaleFile(st) ==
    /\ spc = "start"
    /\ ~statusFile.exists
    /\ statusFile' = [exists |-> TRUE,
                      doc |-> [NoDoc EXCEPT !.status = st, !.error = (st = "failed")],
                      len |-> DocChunks]
    /\ UNCHANGED <<notSetup, waitvars, spc, wpc, status, cfgServices, cfgCommands, cfgDev, cmdDone, provisioned,
                   provLog>>

\* a setup run in a workspace that an earlier run may have used, and a
\* SetupWaiter polling the status file
NextRerun ==
    \/ NextSetupPlain
    \/ NextWaiter
    \/ Tick
    \/ \E st \in {"ready", "failed"} : StaleFile(st)

SpecRerun == Init /\ [][NextRerun]_vars

\* ------------------------------------------------------ Coordinator loop
wvars == <<aborted, watching, abortFile, signals>>

\* runAgent entry: the first fetchPendingMessages() is issued
StartFetch ==
    /\ cpc = "start"
    /\ cpc' = "fetchInitW"
    /\ qcLog' = Append(qcLog, QcCall("fetch", 0))
    /\ UNCHANGED <<rvars, ovars, behavior, drainAwaited, wvars, batch, idx, processedMessageIds, prompts, emitted,
                   created, gwDelivered, gwProcessed, qcFailures>>

\* the initial fetch returns: early return on an empty list, else agent:start
FetchInitReturn(answer) ==
    /\ cpc = "fetchInitW"
    /\ AnswerAllowed(answer)
    /\ qcFailures' = Counted(answer)
    /\ LET r == FetchPendingMessages(answer, PendingMessages)
       IN /\ qcLog' = Append(qcLog, QcReturn("fetch", 0, answer, r))
          /\ IF r.raised \/ LengthRaises(r)
             THEN cpc' = "threw" /\ UNCHANGED <<batch, emitted>>
             ELSE IF Len(r.value) = 0
                  THEN cpc' = "returned" /\ UNCHANGED <<batch, emitted>>
                  ELSE /\ batch' = r.value
                       /\ emitted' = Append(emitted, "agent:start")
                       /\ cpc' = "setup"
    /\ UNCHANGED <<rvars, ovars, behavior, drainAwaited, wvars, idx, processedMessageIds, prompts,
                   created, gwDelivered, gwProcessed>>

\* git configuration, session creation, abortWatcher.start, subscribe
Setup(ok) ==
    /\ cpc = "setup"
    /\ IF ok
       THEN /\ watching' = TRUE
            /\ idx' = 1
            /\ cpc' = "initDeliver"
       ELSE /\ cpc' = "catch"
            /\ UNCHANGED <<watching, idx>>
    /\ UNCHANGED <<rvars, ovars, behavior, drainAwaited, aborted, abortFile, signals, batch, processedMessageIds, prompts,
                   emitted, created, gwDelivered, gwProcessed, qcFailures, qcLog>>

\* variant of InitDeliverCall: the first loop over initialMessages calls
\* markProcessed
InitDeliverCallAsProcessed ==
    /\ cpc = "initDeliver"
    /\ idx <= Len(batch)
    /\ cpc' = "initDeliverW"
    /\ qcLog' = Append(qcLog, QcCall("markProcessed", batch[idx]))
    /\ UNCHANGED <<rvars, ovars, behavior, drainAwaited, wvars, batch, idx, processedMessageIds, prompts, emitted,
                   created, gwDelivered, gwProcessed, qcFailures>>

\* for (const msg of initialMessages) await queueClient.markDelivered(msg.id)
InitDeliverCall ==
    /\ cpc = "initDeliver"
    /\ idx <= Len(batch)
    /\ cpc' = "initDeliverW"
    /\ qcLog' = Append(qcLog, QcCall("markDelivered", batch[idx]))
    /\ UNCHANGED <<rvars, ovars, behavior, drainAwaited, wvars, batch, idx, processedMessageIds, prompts, emitted,
                   created, gwDelivered, gwProcessed, qcFailures>>

InitDeliverReturn(answer, applied) ==
    /\ cpc = "initDeliverW"
    /\ AnswerAllowed(answer)
    /\ GatewayApplies(answer, applied)
    /\ qcFailures' = Counted(answer)
    /\ gwDelivered' = IF applied THEN gwDelivered \cup {batch[idx]} ELSE gwDelivered
    /\ LET r == MarkDelivered(answer)
       IN /\ qcLog' = Append(qcLog, QcReturn("markDelivered", batch[idx], answer, r))
          /\ IF r.raised
             THEN cpc' = "catch" /\ UNCHANGED idx
             ELSE cpc' = "initDeliver" /\ idx' = idx + 1
    /\ UNCHANGED <<rvars, ovars, behavior, drainAwaited, wvars, batch, processedMessageIds, prompts, emitted,
                   created, gwProcessed>>

\* variant of InitDeliveredAll: the loop is left before its last pass
InitDeliveredAllEarly(i, b) == i >= Len(b)

\* the for loop over initialMessages that marks them delivered has ended
InitDeliveredAll(i, b) == i > Len(b)

\* await session.prompt(combinedPrompt)
InitPromptCall ==
    /\ cpc = "initDeliver"
    /\ InitDeliveredAll(idx, batch)
    /\ prompts' = Append(prompts, CombinedPrompt(batch))
    /\ qcLog' = Append(qcLog, PromptCall(CombinedPrompt(batch), "combined"))
    /\ cpc' = "initPromptW"
    /\ UNCHANGED <<rvars, ovars, behavior, drainAwaited, wvars, batch, idx, processedMessageIds, emitted,
                   created, gwDelivered, gwProcessed, qcFailures>>

\* session.prompt and session.agent.waitForIdle return, or the session fails
InitPromptReturn(ok) ==
    /\ cpc = "initPromptW"
    /\ IF ok
       THEN cpc' = "initProcess" /\ idx' = 1
       ELSE cpc' = "catch" /\ UNCHANGED idx
    /\ qcLog' = Append(qcLog, PromptReturn(batch, ok))
    /\ UNCHANGED <<rvars, ovars, behavior, drainAwaited, wvars, batch, processedMessageIds, prompts, emitted,
                   created, gwDelivered, gwProcessed, qcFailures>>

\* for (const msg of initialMessages) await queueClient.markProcessed(msg.id)
InitProcessCall ==
    /\ cpc = "initProcess"
    /\ idx <= Len(batch)
    /\ cpc' = "initProcessW"
    /\ qcLog' = Append(qcLog, QcCall("markProcessed", batch[idx]))
    /\ UNCHANGED <<rvars, ovars, behavior, drainAwaited, wvars, batch, idx, processedMessageIds, prompts, emitted,
                   created, gwDelivered, gwProcessed, qcFailures>>

InitProcessReturn(answer, applied) ==
    /\ cpc = "initProcessW"
    /\ AnswerAllowed(answer)
    /\ GatewayApplies(answer, applied)
    /\ qcFailures' = Counted(answer)
    /\ gwProcessed' = IF applied THEN gwProcessed \cup {batch[idx]} ELSE gwProcessed
    /\ LET r == MarkProcessed(answer)
       IN /\ qcLog' = Append(qcLog, QcReturn("markProcessed", batch[idx], answer, r))
          /\ IF r.raised
             THEN cpc' = "catch" /\ UNCHANGED idx
             ELSE /\ idx' = idx + 1
                  /\ cpc' = IF idx + 1 > Len(batch) THEN "pollHead" ELSE "initProcess"
    /\ UNCHANGED <<rvars, ovars, behavior, drainAwaited, wvars, batch, processedMessageIds, prompts, emitted,
                   created, gwDelivered>>

\* while (!abortWatcher.wasAborted): the next fetchPendingMessages() is
\* issued, or the loop is left
PollHead ==
    /\ cpc = "pollHead"
    /\ IF aborted
       THEN /\ cpc' = "finProcess"
            /\ idx' = 1
            /\ UNCHANGED qcLog
       ELSE /\ cpc' = "pollFetchW"
            /\ qcLog' = Append(qcLog, QcCall("fetch", 0))
            /\ UNCHANGED idx
    /\ UNCHANGED <<rvars, ovars, behavior, drainAwaited, wvars, batch, processedMessageIds, prompts, emitted,
                   created, gwDelivered, gwProcessed, qcFailures>>

\* the poll fetch returns: break on an empty list, else the for loop starts
PollFetchReturn(answer) ==
    /\ cpc = "pollFetchW"
    /\ AnswerAllowed(answer)
    /\ qcFailures' = Counted(answer)
    /\ LET r == FetchPendingMessages(answer, PendingMessages)
       IN /\ qcLog' = Append(qcLog, QcReturn("fetch", 0, answer, r))
          /\ IF r.raised \/ LengthRaises(r)
             THEN cpc' = "catch" /\ watching' = FALSE /\ UNCHANGED <<batch, idx>>
             ELSE /\ UNCHANGED watching
                  /\ idx' = 1
                  /\ IF Len(r.value) = 0
                     THEN cpc' = "finProcess" /\ UNCHANGED batch
                     ELSE cpc' = "pollMsg" /\ batch' = r.value
    /\ UNCHANGED <<rvars, ovars, behavior, drainAwaited, aborted, abortFile, signals, processedMessageIds, prompts, emitted,
                   created, gwDelivered, gwProcessed>>

\* variant of BreaksOnAbort: the for loop does not test the flag
BreaksOnAbortNever(a) == FALSE

\* if (abortWatcher.wasAborted) break, at the head of the for loop
BreaksOnAbort(a) == a

\* for (const msg of queuedMessages): the list is exhausted, or
\* `if (abortWatcher.wasAborted) break`
PollBatchDone ==
    /\ cpc = "pollMsg"
    /\ idx > Len(batch) \/ BreaksOnAbort(aborted)
    /\ cpc' = "pollHead"
    /\ UNCHANGED <<rvars, ovars, behavior, drainAwaited, wvars, batch, idx, processedMessageIds, prompts, emitted,
                   created, gwDelivered, gwProcessed, qcFailures, qcLog>>

\* await queueClient.markDelivered(msg.id)
PollDeliverCall ==
    /\ cpc = "pollMsg"
    /\ idx <= Len(batch)
    /\ ~BreaksOnAbort(aborted)
    /\ cpc' = "pollDeliverW"
    /\ qcLog' = Append(qcLog, QcCall("markDelivered", batch[idx]))
    /\ UNCHANGED <<rvars, ovars, behavior, drainAwaited, wvars, batch, idx, processedMessageIds, prompts, emitted,
                   created, gwDelivered, gwProcessed, qcFailures>>

\* markDelivered returns; addContributor; await reporter.sendSystemMessage
PollDeliverReturn(answer, applied) ==
    /\ cpc = "pollDeliverW"
    /\ AnswerAllowed(answer)
    /\ GatewayApplies(answer, applied)
    /\ qcFailures' = Counted(answer)
    /\ gwDelivered' = IF applied THEN gwDelivered \cup {batch[idx]} ELSE gwDelivered
    /\ LET r == MarkDelivered(answer)
       IN /\ qcLog' = Append(qcLog, QcReturn("markDelivered", batch[idx], answer, r))
          /\ IF r.raised
             THEN cpc' = "catch" /\ watching' = FALSE
             ELSE cpc' = "pollSysMsgW" /\ UNCHANGED watching
    /\ UNCHANGED <<rvars, ovars, behavior, drainAwaited, aborted, abortFile, signals, batch, idx, processedMessageIds,
                   prompts, emitted, created, gwProcessed>>

\* the system message was sent; await session.prompt(formattedMessage, ...)
PollPromptCall ==
    /\ cpc = "pollSysMsgW"
    /\ prompts' = Append(prompts, <<batch[idx]>>)
    /\ qcLog' = Append(qcLog, PromptCall(<<batch[idx]>>, StreamingBehavior(behavior[batch[idx]])))
    /\ cpc' = "pollPromptW"
    /\ UNCHANGED <<rvars, ovars, behavior, drainAwaited, wvars, batch, idx, processedMessageIds, emitted,
                   created, gwDelivered, gwProcessed, qcFailures>>

\* variant of AfterForward: the loops are left after a forwarded message
AfterForwardLeaves(i) == [pc |-> "finProcess", idx |-> 1]

\* after processedMessageIds.push the for loop goes to its next pass
AfterForward(i) == [pc |-> "pollMsg", idx |-> i + 1]

\* session.prompt returns (processedMessageIds.push) or throws
PollPromptReturn(ok) ==
    /\ cpc = "pollPromptW"
    /\ IF ok
       THEN /\ processedMessageIds' = Append(processedMessageIds, batch[idx])
            /\ idx' = AfterForward(idx).idx
            /\ cpc' = AfterForward(idx).pc
            /\ UNCHANGED watching
       ELSE /\ cpc' = "catch"
            /\ watching' = FALSE
            /\ UNCHANGED <<processedMessageIds, idx>>
    /\ qcLog' = Append(qcLog, PromptReturn(<<batch[idx]>>, ok))
    /\ UNCHANGED <<rvars, ovars, behavior, drainAwaited, aborted, abortFile, signals, batch, prompts, emitted,
                   created, gwDelivered, gwProcessed, qcFailures>>

\* for (const id of processedMessageIds) await queueClient.markProcessed(id)
FinProcessCall ==
    /\ cpc = "finProcess"
    /\ idx <= Len(processedMessageIds)
    /\ cpc' = "finProcessW"
    /\ qcLog' = Append(qcLog, QcCall("markProcessed", processedMessageIds[idx]))
    /\ UNCHANGED <<rvars, ovars, behavior, drainAwaited, wvars, batch, idx, processedMessageIds, prompts, emitted,
                   created, gwDelivered, gwProcessed, qcFailures>>

FinProcessReturn(answer, applied) ==
    /\ cpc = "finProcessW"
    /\ AnswerAllowed(answer)
    /\ GatewayApplies(answer, applied)
    /\ qcFailures' = Counted(answer)
    /\ gwProcessed' = IF applied THEN gwProcessed \cup {processedMessageIds[idx]} ELSE gwProcessed
    /\ LET r == MarkProcessed(answer)
       IN /\ qcLog' = Append(qcLog, QcReturn("markProcessed", processedMessageIds[idx], answer, r))
          /\ IF r.raised
             THEN cpc' = "catch" /\ watching' = FALSE /\ UNCHANGED idx
             ELSE cpc' = "finProcess" /\ idx' = idx + 1 /\ UNCHANGED watching
    /\ UNCHANGED <<rvars, ovars, behavior, drainAwaited, aborted, abortFile, signals, batch, processedMessageIds, prompts,
                   emitted, created, gwDelivered>>

\* variant of Finish: a statement after the report of agent:end throws, and
\* the catch block runs
FinishThenThrows ==
    /\ cpc = "finProcess"
    /\ idx > Len(processedMessageIds)
    /\ watching' = FALSE
    /\ emitted' = Append(emitted, "agent:end")
    /\ cpc' = "catch"
    /\ UNCHANGED <<rvars, ovars, behavior, drainAwaited, aborted, abortFile, signals, batch, idx, processedMessageIds,
                   prompts, created, gwDelivered, gwProcessed, qcFailures, qcLog>>

\* waitForIdle; finally abortWatcher.stop(); report agent:end; dispose
Finish ==
    /\ cpc = "finProcess"
    /\ idx > Len(processedMessageIds)
    /\ watching' = FALSE
    /\ emitted' = Append(emitted, "agent:end")
    /\ cpc' = "drain"
    /\ UNCHANGED <<rvars, ovars, behavior, drainAwaited, aborted, abortFile, signals, batch, idx, processedMessageIds,
                   prompts, created, gwDelivered, gwProcessed, qcFailures, qcLog>>

\* catch (error): report agent:error, rethrow
Catch ==
    /\ cpc = "catch"
    /\ emitted' = Append(emitted, "agent:error")
    /\ cpc' = "drainThrow"
    /\ UNCHANGED <<rvars, ovars, behavior, drainAwaited, wvars, batch, idx, processedMessageIds, prompts,
                   created, gwDelivered, gwProcessed, qcFailures, qcLog>>

\* finally: await reporter.drain(), then runAgent returns or rethrows
CoordDrain ==
    /\ cpc \in {"drain", "drainThrow"}
    /\ cpc' = IF cpc = "drain" THEN "returned" ELSE "threw"
    /\ drainAwaited' = TRUE
    /\ UNCHANGED <<rvars, ovars, behavior, wvars, batch, idx, processedMessageIds, prompts, emitted,
                   created, gwDelivered, gwProcessed, qcFailures, qcLog>>

\* The Coordinator with failing Gateway answers, failing setup and session
\* and the abort signal.  runAgent reads msg.behavior only to pick the
\* streamingBehavior argument; the messages here are all followUp ones, and
\* SpecBehavior below varies the behavior.
NextCoord ==
    \/ GatewayEnqueue("followUp")
    \/ GatewayAbort
    \/ WatcherTick
    \/ StartFetch
    \/ \E answer \in Answers : FetchInitReturn(answer)
    \/ \E ok \in BOOLEAN : Setup(ok)
    \/ InitDeliverCall
    \/ \E answer \in Answers, applied \in BOOLEAN : InitDeliverReturn(answer, applied)
    \/ InitPromptCall
    \/ \E ok \in BOOLEAN : InitPromptReturn(ok)
    \/ InitProcessCall
    \/ \E answer \in Answers, applied \in BOOLEAN : InitProcessReturn(answer, applied)
    \/ PollHead
    \/ \E answer \in Answers : PollFetchReturn(answer)
    \/ PollBatchDone
    \/ PollDeliverCall
    \/ \E answer \in Answers, applied \in BOOLEAN : PollDeliverReturn(answer, applied)
    \/ PollPromptCall
    \/ \E ok \in BOOLEAN : PollPromptReturn(ok)
    \/ FinProcessCall
    \/ \E answer \in Answers, applied \in BOOLEAN : FinProcessReturn(answer, applied)
    \/ Finish
    \/ Catch
    \/ CoordDrain

SpecCoord == Init /\ [][NextCoord]_vars

\* The Coordinator with messages of every behavior; the Gateway answers
\* every fetch, and an acknowledgment either ok or with an error status.
AckAnswers == {"ok", "http_error"}

NextBehavior ==
    \/ \E b \in Behaviors : GatewayEnqueue(b)
    \/ StartFetch
    \/ FetchInitReturn("ok")
    \/ Setup(TRUE)
    \/ InitDeliverCall
    \/ \E answer \in AckAnswers : InitDeliverReturn(answer, answer = "ok")
    \/ InitPromptCall
    \/ \E ok \in BOOLEAN : InitPromptReturn(ok)
    \/ InitProcessCall
    \/ \E answer \in AckAnswers : InitProcessReturn(answer, answer = "ok")
    \/ PollHead
    \/ PollFetchReturn("ok")
    \/ PollBatchDone
    \/ PollDeliverCall
    \/ \E answer \in AckAnswers : PollDeliverReturn(answer, answer = "ok")
    \/ PollPromptCall
    \/ \E ok \in BOOLEAN : PollPromptReturn(ok)
    \/ FinProcessCall
    \/ \E answer \in AckAnswers : FinProcessReturn(answer, answer = "ok")
    \/ Finish
    \/ Catch
    \/ CoordDrain

SpecBehavior == Init /\ [][NextBehavior]_vars

\* the answers of a Gateway that responds with success every time, with
\* the promised body or with an unexpected one
SuccessAnswers == {"ok"} \cup BodyAnswers

\* the Coordinator against a Gateway whose success responses may carry an
\* unexpected body
NextBody ==
    \/ \E b \in Behaviors : GatewayEnqueue(b)
    \/ StartFetch
    \/ \E answer \in SuccessAnswers : FetchInitReturn(answer)
    \/ Setup(TRUE)
    \/ InitDeliverCall
    \/ InitDeliverReturn("ok", TRUE)
    \/ InitPromptCall
    \/ \E ok \in BOOLEAN : InitPromptReturn(ok)
    \/ InitProcessCall
    \/ InitProcessReturn("ok", TRUE)
    \/ PollHead
    \/ \E answer \in SuccessAnswers : PollFetchReturn(answer)
    \/ PollBatchDone
    \/ PollDeliverCall
    \/ PollDeliverReturn("ok", TRUE)
    \/ PollPromptCall
    \/ \E ok \in BOOLEAN : PollPromptReturn(ok)
    \/ FinProcessCall
    \/ FinProcessReturn("ok", TRUE)
    \/ Finish
    \/ Catch
    \/ CoordDrain

SpecBody == Init /\ [][NextBody]_vars

\* ------------------------------------------- session.subscribe callback
\* the text deltas of the session: a non-blank one and a blank one
Deltas == {"x", " "}

\* currentMessageContent.trim() is non-empty
NonBlank(content) == \E i \in 1..Len(content) : content[i] # " "

SubEvent(t, m, c) == [type |-> t, messageId |-> m, content |-> c]

\* case "message_end": whether the callback is parked in `await
\* reporter.report(...)` with the reset of its state still to run
EndCallbackParks(reports) == reports

\* the session emits message_start; case "message_start" runs up to its await
SessionMessageStart ==
    /\ ~sessOpen
    /\ sessMsg < MaxSessionMsgs
    /\ sessMsg' = sessMsg + 1
    /\ sessOpen' = TRUE
    /\ currentMessageId' = sessMsg + 1
    /\ currentMessageContent' = <<>>
    /\ subEvents' = Append(subEvents, SubEvent("message:start", sessMsg + 1, <<>>))
    /\ UNCHANGED <<notSub, sessDeltas, parkedEnds>>

\* the session emits a text_delta; case "message_update" runs up to its await
SessionTextDelta(d) ==
    /\ sessOpen
    /\ Len(sessDeltas[sessMsg]) < MaxDeltas
    /\ sessDeltas' = [sessDeltas EXCEPT ![sessMsg] = Append(@, d)]
    /\ IF currentMessageId # 0
       THEN /\ currentMessageContent' = Append(currentMessageContent, d)
            /\ subEvents' = Append(subEvents, SubEvent("message:delta", currentMessageId, <<d>>))
       ELSE UNCHANGED <<currentMessageContent, subEvents>>
    /\ UNCHANGED <<notSub, sessMsg, sessOpen, currentMessageId, parkedEnds>>

\* the session emits message_end; case "message_end" runs up to its await,
\* or to its end when nothing is reported
SessionMessageEnd ==
    /\ sessOpen
    /\ sessOpen' = FALSE
    /\ LET reports == currentMessageId # 0 /\ NonBlank(currentMessageContent)
       IN /\ subEvents' = IF reports
                          THEN Append(subEvents, SubEvent("message:end", currentMessageId,
                                                          currentMessageContent))
                          ELSE subEvents
          /\ IF EndCallbackParks(reports)
             THEN /\ parkedEnds' = parkedEnds + 1
                  /\ UNCHANGED <<currentMessageId, currentMessageContent>>
             ELSE /\ currentMessageId' = 0
                  /\ currentMessageContent' = <<>>
                  /\ UNCHANGED parkedEnds
    /\ UNCHANGED <<notSub, sessMsg, sessDeltas>>

\* report() of a message_end callback resolved: the callback resets
\* currentMessageId and currentMessageContent
EndCallbackResume ==
    /\ parkedEnds > 0
    /\ parkedEnds' = parkedEnds - 1
    /\ currentMessageId' = 0
    /\ currentMessageContent' = <<>>
    /\ UNCHANGED <<notSub, sessMsg, sessOpen, sessDeltas, subEvents>>

NextSubscriber ==
    \/ SessionMessageStart
    \/ \E d \in Deltas : SessionTextDelta(d)
    \/ SessionMessageEnd
    \/ EndCallbackResume

SpecSubscriber == Init /\ [][NextSubscriber]_vars

\* --------------------- session.subscribe callback with lazy message:start
\* the message_update callbacks: the i-th text delta of message m
Updates == (1..MaxSessionMsgs) \X (1..MaxDeltas)

\* case "message_start": nothing is reported yet
LazyMessageStart ==
    /\ ~sessOpen
    /\ sessMsg < MaxSessionMsgs
    /\ sessMsg' = sessMsg + 1
    /\ sessOpen' = TRUE
    /\ currentMessageId' = sessMsg + 1
    /\ currentMessageContent' = <<>>
    /\ messageStartSent' = FALSE
    /\ UNCHANGED <<notLazy, sessDeltas, parkedEnds, subEvents, updPc>>

\* the session emits a text_delta; case "message_update" runs up to its
\* first await: the report of message:start when messageStartSent is not
\* set, else the report of message:delta
LazyTextDelta(d) ==
    /\ sessOpen
    /\ Len(sessDeltas[sessMsg]) < MaxDeltas
    /\ sessDeltas' = [sessDeltas EXCEPT ![sessMsg] = Append(@, d)]
    /\ LET k == <<sessMsg, Len(sessDeltas[sessMsg]) + 1>>
       IN IF currentMessageId = 0
          THEN /\ updPc' = [updPc EXCEPT ![k] = "done"]
               /\ UNCHANGED <<currentMessageContent, subEvents>>
          ELSE IF ~messageStartSent
               THEN /\ subEvents' = Append(subEvents, SubEvent("message:start", currentMessageId, <<>>))
                    /\ updPc' = [updPc EXCEPT ![k] = "startW"]
                    /\ UNCHANGED currentMessageContent
               ELSE /\ currentMessageContent' = Append(currentMessageContent, d)
                    /\ subEvents' = Append(subEvents, SubEvent("message:delta", currentMessageId, <<d>>))
                    /\ updPc' = [updPc EXCEPT ![k] = "deltaW"]
    /\ UNCHANGED <<notLazy, sessMsg, sessOpen, currentMessageId, parkedEnds, messageStartSent>>

\* report(message:start) resolved: messageStartSent = true, the delta is
\* appended and reported with the currentMessageId of this moment
LazyStartResume(k) ==
    /\ updPc[k] = "startW"
    /\ messageStartSent' = TRUE
    /\ currentMessageContent' = Append(currentMessageContent, sessDeltas[k[1]][k[2]])
    /\ subEvents' = Append(subEvents, SubEvent("message:delta", currentMessageId, <<sessDeltas[k[1]][k[2]]>>))
    /\ updPc' = [updPc EXCEPT ![k] = "deltaW"]
    /\ UNCHANGED <<notLazy, sessMsg, sessOpen, sessDeltas, currentMessageId, parkedEnds>>

\* report(message:delta) resolved: the callback ends
LazyDeltaResume(k) ==
    /\ updPc[k] = "deltaW"
    /\ updPc' = [updPc EXCEPT ![k] = "done"]
    /\ UNCHANGED <<notLazy, subvars, messageStartSent>>

\* the session emits message_end; case "message_end" reports message:end
\* and parks, or resets the state at once when nothing is reported
LazyMessageEnd ==
    /\ sessOpen
    /\ sessOpen' = FALSE
    /\ IF currentMessageId # 0 /\ messageStartSent /\ currentMessageContent # <<>>
       THEN /\ subEvents' = Append(subEvents, SubEvent("message:end", currentMessageId,
                                                       currentMessageContent))
            /\ parkedEnds' = parkedEnds + 1
            /\ UNCHANGED <<currentMessageId, currentMessageContent, messageStartSent>>
       ELSE /\ currentMessageId' = 0
            /\ currentMessageContent' = <<>>
            /\ messageStartSent' = FALSE
            /\ UNCHANGED <<subEvents, parkedEnds>>
    /\ UNCHANGED <<notLazy, sessMsg, sessDeltas, updPc>>

\* report(message:end) resolved: the callback resets the state
LazyEndResume ==
    /\ parkedEnds > 0
    /\ parkedEnds' = parkedEnds - 1
    /\ currentMessageId' = 0
    /\ currentMessageContent' = <<>>
    /\ messageStartSent' = FALSE
    /\ UNCHANGED <<notLazy, sessMsg, sessOpen, sessDeltas, subEvents, updPc>>

NextLazy ==
    \/ LazyMessageStart
    \/ \E d \in Deltas : LazyTextDelta(d)
    \/ \E k \in Updates : LazyStartResume(k)
    \/ \E k \in Updates : LazyDeltaResume(k)
    \/ LazyMessageEnd
    \/ LazyEndResume

SpecLazy == Init /\ [][NextLazy]_vars

\* the deltas forwarded for message m, in the order of their report() calls
ForwardedDeltas(m) ==
    LET F[i \in 0..Len(subEvents)] ==
            IF i = 0 THEN <<>>
            ELSE IF subEvents[i].type = "message:delta" /\ subEvents[i].messageId = m
                 THEN F[i - 1] \o subEvents[i].content
                 ELSE F[i - 1]
    IN F[Len(subEvents)]

MessageEnded(m) == m < sessMsg \/ (m = sessMsg /\ ~sessOpen)

\* C14 (as stated): every text delta the session emitted for a message was
\* enqueued as a message:delta with that message's id, and every ended
\* message with non-blank text got its message:end, also when callbacks
\* interleave.
C14_AllForwarded ==
    \A m \in 1..sessMsg :
        /\ ForwardedDeltas(m) = sessDeltas[m]
        /\ (MessageEnded(m) /\ NonBlank(sessDeltas[m])) =>
               \E i \in 1..Len(subEvents) :
                   /\ subEvents[i].type = "message:end"
                   /\ subEvents[i].messageId = m

\* ---------------------------------------------------- Coordinator properties
QIdx == 1..Len(qcLog)

IsCall(i, o) == qcLog[i].kind = "call" /\ qcLog[i].op = o

IsReturn(i, o) == qcLog[i].kind = "return" /\ qcLog[i].op = o

\* C8: markProcessed(id) is never issued before a markDelivered(id) call
\* for the same id has been issued and has returned, in the initial batch
\* and in every poll-loop batch.
C8_DeliveredBeforeProcessed ==
    \A j \in QIdx :
        IsCall(j, "markProcessed") =>
            \E h, i \in QIdx :
                /\ h < i /\ i < j
                /\ IsCall(h, "markDelivered") /\ qcLog[h].id = qcLog[j].id
                /\ IsReturn(i, "markDelivered") /\ qcLog[i].id = qcLog[j].id

C8_Witness ==
    /\ \E j \in QIdx : IsCall(j, "markProcessed") /\ qcLog[j].id \in Range(batch)
    /\ Len(prompts) >= 2
    /\ Len(processedMessageIds) > 0
    /\ cpc = "finProcessW"

\* C9 (as stated): no message is recorded as processed at the Gateway
\* without having been recorded as delivered there, whatever
\* acknowledgment calls fail.
C9_GatewayDeliveredBeforeProcessed == gwProcessed \subseteq gwDelivered

\* C10: no QueueClient operation raises on a non-success response or a
\* transport error: fetchPendingMessages returns the empty list,
\* markDelivered and markProcessed return false.
C10_QueueClientNeverRaises ==
    \A i \in QIdx :
        (/\ qcLog[i].kind = "return"
         /\ qcLog[i].op \in {"fetch", "markDelivered", "markProcessed"}
         /\ qcLog[i].answer # "ok") =>
            /\ ~qcLog[i].raised
            /\ qcLog[i].op = "fetch" => qcLog[i].value = <<>>
            /\ qcLog[i].op \in {"markDelivered", "markProcessed"} => qcLog[i].value = FALSE

C10_Witness ==
    /\ \E i \in QIdx : IsReturn(i, "fetch") /\ qcLog[i].answer = "transport_error"
    /\ \E i \in QIdx : IsReturn(i, "markProcessed") /\ qcLog[i].answer = "http_error"

\* C11 (as stated): once AbortWatcher.wasAborted is true, no further
\* session.prompt call is started, whichever await the Coordinator was
\* parked on when the watcher fired.
C11_NoPromptAfterAbort == [][aborted => prompts' = prompts]_vars

\* C12 (as stated): a queued message whose behavior is abort is not run as
\* a prompt when the poll loop handles it (it cancels the session instead).
C12_AbortNotPrompted ==
    \A i \in QIdx :
        (IsCall(i, "prompt") /\ qcLog[i].value # "combined")
            => \A m \in Range(qcLog[i].id) : behavior[m] # "abort"

\* initialMessages: what the first fetchPendingMessages() returned
InitialMessages ==
    IF \E k \in QIdx : IsReturn(k, "fetch")
    THEN qcLog[CHOOSE k \in QIdx : IsReturn(k, "fetch") /\ \A h \in 1..(k - 1) : ~IsReturn(h, "fetch")].value
    ELSE <<>>

\* C25: when the combined prompt is given to the session, a markDelivered
\* call has returned for every initial message, and a markProcessed call for
\* an initial message is issued only after the combined prompt was given and
\* the session call and its wait for idle returned.
C25_InitialBatchOrder ==
    /\ \A p \in QIdx :
           (IsCall(p, "prompt") /\ qcLog[p].value = "combined") =>
               \A m \in Range(InitialMessages) :
                   \E h, i \in 1..(p - 1) :
                       /\ h < i
                       /\ IsCall(h, "markDelivered") /\ qcLog[h].id = m
                       /\ IsReturn(i, "markDelivered") /\ qcLog[i].id = m
    /\ \A j \in QIdx :
           (IsCall(j, "markProcessed") /\ qcLog[j].id \in Range(InitialMessages)) =>
               \E p, r \in 1..(j - 1) :
                   /\ p < r
                   /\ IsCall(p, "prompt") /\ qcLog[p].value = "combined"
                   /\ IsReturn(r, "prompt") /\ ~qcLog[r].raised

\* an initial batch of two messages was prompted and is being marked processed
C25_Witness ==
    /\ Len(InitialMessages) = 2
    /\ \E j \in QIdx : IsCall(j, "markProcessed") /\ qcLog[j].id = InitialMessages[2]
    /\ cpc = "initProcessW"

\* the fetch whose result the call at position i works on
LastFetch(i) ==
    CHOOSE k \in 1..(i - 1) :
        IsReturn(k, "fetch") /\ \A h \in (k + 1)..(i - 1) : ~IsReturn(h, "fetch")

PromptsBetween(k, i) == {p \in (k + 1)..(i - 1) : IsCall(p, "prompt")}

IsPollPrompt(q) == IsCall(q, "prompt") /\ qcLog[q].value # "combined"

\* message m was forwarded to the session between positions k and j
ForwardedBetween(m, k, j) == \E q \in (k + 1)..(j - 1) : IsPollPrompt(q) /\ qcLog[q].id = <<m>>

\* when agent:end is reported, every message the poll loop forwarded and
\* whose session call returned has a markProcessed call that returned
ForwardedAllProcessed ==
    "agent:end" \in Range(emitted) =>
        \A q \in QIdx :
            (IsPollPrompt(q) /\ \E r \in QIdx : r > q /\ IsReturn(r, "prompt")
                                                     /\ qcLog[r].id = qcLog[q].id /\ ~qcLog[r].raised) =>
                \E c, r \in QIdx :
                    /\ q < c /\ c < r
                    /\ IsCall(c, "markProcessed") /\ <<qcLog[c].id>> = qcLog[q].id
                    /\ IsReturn(r, "markProcessed") /\ <<qcLog[r].id>> = qcLog[q].id

\* C26 (as stated): a message of a poll batch is marked processed only after
\* every message of that batch was forwarded to the session, and all
\* forwarded messages are marked processed before agent:end.
C26_ProcessedAfterWholeBatch ==
    /\ \A j, q \in QIdx :
           (q < j /\ IsCall(j, "markProcessed") /\ IsPollPrompt(q) /\ qcLog[q].id = <<qcLog[j].id>>) =>
               \A m \in Range(qcLog[LastFetch(q)].value) : ForwardedBetween(m, LastFetch(q), j)
    /\ ForwardedAllProcessed

\* C26 (amended): a message of a poll batch is marked processed only after
\* the loop over that batch has ended, that is after every message of the
\* batch was forwarded or the abort flag was set; all forwarded messages are
\* marked processed before agent:end.
C26_ProcessedAfterBatchEnded ==
    /\ \A j, q \in QIdx :
           (q < j /\ IsCall(j, "markProcessed") /\ IsPollPrompt(q) /\ qcLog[q].id = <<qcLog[j].id>>) =>
               \/ \A m \in Range(qcLog[LastFetch(q)].value) : ForwardedBetween(m, LastFetch(q), j)
               \/ aborted
    /\ ForwardedAllProcessed

\* a poll batch of two messages was forwarded and processed, then agent:end
C26_Witness ==
    /\ "agent:end" \in Range(emitted)
    /\ ~aborted
    /\ \E q \in QIdx :
           /\ IsPollPrompt(q)
           /\ Len(qcLog[LastFetch(q)].value) = 2
           /\ qcLog[q].id = <<qcLog[LastFetch(q)].value[2]>>
           /\ \E j \in QIdx : j > q /\ IsReturn(j, "markProcessed") /\ <<qcLog[j].id>> = qcLog[q].id

\* C13: the messages of one fetched batch reach the session in fetch order
\* whatever their behavior: the combined initial prompt holds the texts in
\* fetch order, and in the poll loop the n-th session call of a batch is for
\* the n-th fetched message and starts after the earlier ones returned.
C13_FetchOrder ==
    \A i \in QIdx :
        IsCall(i, "prompt") =>
            LET k == LastFetch(i)
                list == qcLog[k].value
                n == Cardinality(PromptsBetween(k, i)) + 1
            IN IF qcLog[i].value = "combined"
               THEN qcLog[i].id = list
               ELSE /\ n <= Len(list)
                    /\ qcLog[i].id = <<list[n]>>
                    /\ \A p \in PromptsBetween(k, i) :
                          \E r \in (p + 1)..(i - 1) :
                              IsReturn(r, "prompt") /\ qcLog[r].id = qcLog[p].id

C13_Witness ==
    \E i, j \in QIdx :
        /\ i < j
        /\ IsCall(i, "prompt") /\ qcLog[i].value = "followUp"
        /\ IsCall(j, "prompt") /\ qcLog[j].value = "steer"
        /\ LastFetch(i) = LastFetch(j)
        /\ behavior[qcLog[i].id[1]] = "followUp"
        /\ \E c \in QIdx : IsCall(c, "prompt") /\ qcLog[c].value = "combined"

\* C15: whenever runAgent has returned or thrown, it has awaited
\* reporter.drain() before leaving.
C15_DrainOnEveryExit == cpc \in {"returned", "threw"} => drainAwaited

\* C16: the poll loop is left for the final bookkeeping only when the Gateway
\* holds no pending message or an abort has occurred.
C16_LoopEndsOnlyWhenEmptyOrAborted ==
    [][(cpc \in {"pollHead", "pollFetchW"} /\ cpc' = "finProcess")
           => (PendingSet = {} \/ aborted)]_vars


\* ------------------------------------------------- status file properties
\* C19: every content the reader got from readFile is a complete document.
C19_ReadsComplete == \A c \in reads : c.len = DocChunks

\* C20: a run whose provisioning steps all succeeded does not exit with
\* code 1, whatever happens to its status writes.
C20_WriteFailureKeepsOutcome == (provisioned /\ spc \in {"exit0", "exit1"}) => spc = "exit0"

\* the status file holds a complete document with a terminal status
TerminalOnDisk ==
    /\ statusFile.exists
    /\ statusFile.len = DocChunks
    /\ statusFile.doc.status \in {"ready", "failed"}

\* C21: once a complete terminal document is on disk, the status file is
\* never written again.
C21_TerminalNeverRewritten == [][TerminalOnDisk => statusFile' = statusFile]_vars

\* the status file holds the complete ready document
ReadyOnDisk ==
    /\ statusFile.exists
    /\ statusFile.len = DocChunks
    /\ statusFile.doc.status = "ready"

\* the provisioning steps a configuration asks for, in the order of main
Expected(n, c, d) ==
    [i \in 1..n |-> Step("service", i)] \o <<Step("env", 0)>>
        \o [i \in 1..c |-> Step("command", i)]
        \o (IF d THEN <<Step("port", 0)>> ELSE <<>>)

C22_ReadyWithinTimeoutSucceeds ==
    []((ReadyOnDisk /\ WithinTimeout(now)) => [](wtpc \notin {"exit1", "exit2"}))

\* the event loop runs the waiter's continuations and the clock advances
SpecWaiterFair == SpecStatusFile /\ WF_vars(NextWaiter) /\ WF_vars(Tick)

\* C23: the timeout outcome is taken only at or after the configured
\* duration, and a waiter for which no terminal document is ever readable
\* ends with it.
C23_TimeoutAtOrAfterDuration ==
    /\ [](wtpc = "exit2" => now - waitStart >= Timeout)
    /\ <>(TerminalOnDisk \/ wtpc = "exit2")

\* the waiter timed out on a file that never appeared
C23_Witness ==
    /\ wtpc = "exit2"
    /\ ~statusFile.exists
    /\ reads = {}

\* the waiter has read a complete document with a terminal status
TerminalRead == \E c \in reads : c.len = DocChunks /\ c.status \in {"ready", "failed"}

\* C24: the waiter ends, and with a sound outcome: 0 after it read a ready
\* document, 1 after it read a failed document carrying the error, 2 after
\* the timeout elapsed with no terminal document read.
C24_ThreeSoundOutcomes ==
    /\ [](wtpc = "exit0" => (Parses(lastObs) /\ lastObs.status = "ready"))
    /\ [](wtpc = "exit1" => (Parses(lastObs) /\ lastObs.status = "failed" /\ lastObs.error))
    /\ [](wtpc = "exit2" => (~WithinTimeout(now) /\ ~TerminalRead))
    /\ <>(wtpc \in {"exit0", "exit1", "exit2"})

\* the waiter ended with the failure outcome after running documents
C24_Witness ==
    /\ wtpc = "exit1"
    /\ [status |-> "running", len |-> DocChunks] \in reads
    /\ lastObs.status = "failed"

\* the step a loop pass saw: none when there was no file, no parse or no
\* status document
ObsStep(c) == IF Parses(c) /\ c.status \notin {"absent", "malformed"} THEN c.step ELSE Step("none", 0)

\* C29: a pass that finds no file, an unparsable or malformed document or a
\* running document goes on to the sleep, and a step is logged only if it is
\* the step of this pass and differs from the step of the previous pass.
C29_KeepsPollingAndLogsChanges ==
    [][(wtpc' # wtpc /\ (wtpc = "readFile" \/ (wtpc = "access" /\ wtpc' = "sleep"))) =>
          /\ (~Parses(lastObs') \/ lastObs'.status \in {"absent", "malformed", "running"})
                 => wtpc' = "sleep"
          /\ stepLog' # stepLog =>
                 /\ stepLog' = Append(stepLog, ObsStep(lastObs'))
                 /\ ObsStep(lastObs') # ObsStep(lastObs)]_vars

\* two steps were logged, each on a running document, and the waiter polls on
C29_Witness ==
    /\ Len(stepLog) = 2
    /\ wtpc = "sleep"
    /\ lastObs.status = "running"

\* --------------------------------------------------- AbortWatcher properties
WIdx == 1..Len(wlog)

\* C17: the onAbort callback of an AbortWatcher is invoked at most once.
C17_OnAbortAtMostOnce == onAbortCalls <= 1

\* the file was re-created right after the watcher deleted it, the watcher was
\* started again and its callback ran with the file present
C17_Witness ==
    /\ onAbortCalls = 1
    /\ \E i, j, k \in WIdx :
           /\ i + 1 < j /\ j < k
           /\ wlog[i] = "detect"
           /\ wlog[i + 1] = "touch"
           /\ wlog[j] = "start"
           /\ wlog[k] = "tick"
           /\ \A n \in j..k : wlog[n] # "stop"

\* C27: after a stop() no tick runs until the next start(); stop() leaves the
\* aborted flag, the signal file and the callback count alone, and on a watcher
\* that is not polling it changes nothing.
C27_StopHaltsPolling ==
    /\ [](\A i, j \in WIdx :
             (i < j /\ wlog[i] = "stop" /\ wlog[j] \in {"tick", "detect", "detectUnlinkFailed"}) =>
                 \E k \in (i + 1)..(j - 1) : wlog[k] = "start")
    /\ [][(Len(wlog') > Len(wlog) /\ wlog'[Len(wlog')] = "stop") =>
             /\ ~watching'
             /\ aborted' = aborted /\ abortFile' = abortFile /\ onAbortCalls' = onAbortCalls
             /\ ~watching => UNCHANGED <<rvars, cvars, subvars, setupvars, extvars, lazyvars, cbvars>>]_vars

\* stopped twice with the signal file created in between, nothing triggered
C27_Witness ==
    /\ abortFile /\ ~aborted /\ ~watching
    /\ onAbortCalls = 0
    /\ \E h, i, j, k \in WIdx :
           /\ h < i /\ i < j /\ j < k
           /\ wlog[h] = "start" /\ wlog[i] = "stop" /\ wlog[j] = "touch" /\ wlog[k] = "stop"
           /\ \A n \in i..Len(wlog) : wlog[n] # "start"

\* C18: once the watcher has triggered, no abort signal file is on disk.
C18_NoSignalFileLeft == aborted => ~abortFile

\* ------------------------------------------------ EventReporter properties
Idx == 1..Len(log)

IsFail(i) == log[i].op \in {"http", "neterr"}

IsOk(i) == log[i].op = "ok"

\* the events the Gateway answered with a success response, in that order
Gateway == [i \in 1..Cardinality({k \in Idx : IsOk(k)}) |->
              log[CHOOSE k \in Idx : IsOk(k) /\ Cardinality({m \in 1..k : IsOk(m)}) = i].ev]

PassActive(c) == pc[c] # "idle"

Held(e) == \E c \in Events : pc[c] \in {"fetch", "text"} /\ cur[c] = e

InQueue(e) == \E i \in 1..Len(eventQueue) : eventQueue[i] = e

Quiescent == eventQueue = <<>> /\ \A c \in Events : ~PassActive(c)

\* C1 (as stated): when a delivery attempt of event eN fails (transport
\* error or non-success response), no event enqueued after eN gets a
\* success answer before eN itself got one.
C1_OrderUnderRetry ==
    \A i, j \in Idx :
        (IsFail(i) /\ i < j /\ IsOk(j) /\ log[j].ev > log[i].ev)
            => \E k \in Idx : i < k /\ k < j /\ IsOk(k) /\ log[k].ev = log[i].ev

\* C2 (as stated): an event accepted by report() leaves the reporter (is
\* neither queued nor held by a running sendEvent) only after one of its
\* delivery attempts was answered with a success response.
C2_DroppedOnlyAfterSuccess ==
    \A e \in 1..reported :
        (~InQueue(e) /\ ~Held(e))
            => \E k \in Idx : IsOk(k) /\ log[k].ev = e

\* sendEvent() of call c returns in this step after a failed attempt
SendEventFailed(c) ==
    /\ pc'[c] = "loop"
    /\ \/ pc[c] = "text"
       \/ pc[c] = "fetch" /\ log'[Len(log')].op # "ok"

\* C3 (as stated): when a delivery attempt ends in a non-success response
\* or in a transport error, the event is back at the head of the queue,
\* ahead of everything report() appended meanwhile.
C3_FailedEventBackAtHead ==
    [][\A c \in Events :
          SendEventFailed(c) => (Len(eventQueue') > 0 /\ Head(eventQueue') = cur[c])]_vars

\* C4: if no delivery attempt fails, the Gateway receives e1, e2, ... once
\* each and in report() order, also for report() calls made while a pass is
\* parked on its HTTP call; when the reporter is idle it has received all.
C4_InOrderWhenNoFailure ==
    (failures = 0) =>
        /\ \A i \in 1..Len(Gateway) : Gateway[i] = i
        /\ Quiescent => Len(Gateway) = reported

C4_Witness ==
    /\ failures = 0
    /\ Quiescent
    /\ reported = MaxEvents
    /\ Len(Gateway) = MaxEvents
    /\ \E i \in Idx : i > 1 /\ log[i].op = "report" /\ log[i-1].op = "send"

\* C5: drain() resolves only in a state where the queue is empty and no
\* delivery pass is in flight (no event popped with its HTTP call pending).
C5_DrainResolvesWhenIdle ==
    [][(drainPc # "resolved" /\ drainPc' = "resolved")
          => (eventQueue = <<>> /\ \A c \in Events : ~PassActive(c) /\ ~Held(c))]_vars

C5_Witness ==
    /\ drainPc = "resolved"
    /\ drainWaited
    /\ Len(Gateway) > 0

\* C6: at most one delivery pass is active at any time, hence at most one
\* event HTTP request is in flight.
C6_SinglePass ==
    /\ Cardinality({c \in Events : PassActive(c)}) <= 1
    /\ Cardinality({c \in Events : pc[c] = "fetch"}) <= 1

C6_Witness ==
    /\ \E c \in Events : pc[c] = "fetch"
    /\ Len(log) > 0
    /\ log[Len(log)].op = "report"
    /\ reported = MaxEvents

UnexpectedBodyReturn ==
    /\ Len(qcLog') = Len(qcLog) + 1
    /\ qcLog'[Len(qcLog')].kind = "return"
    /\ qcLog'[Len(qcLog')].op = "fetch"
    /\ qcLog'[Len(qcLog')].answer \in BodyAnswers

\* C28: when the Gateway answers a fetch with success and a body that is
\* not JSON or is JSON without a messages list, nothing is raised and the
\* Coordinator goes on as with an empty queue: the initial fetch ends the
\* run quietly, a poll fetch leaves the loop for the final acknowledgement
C28_UnexpectedBodyIsNoData ==
    [][UnexpectedBodyReturn =>
          /\ ~qcLog'[Len(qcLog')].raised
          /\ cpc = "fetchInitW" => cpc' = "returned"
          /\ cpc = "pollFetchW" => cpc' = "finProcess"]_vars


\* ------------------------------------------------ failed provisioning step
\* the awaits of main that are provisioning steps
ProvisioningPoints == {"loadConfig", "startService", "reloadConfig", "env", "runCommand", "waitForPort"}

\* main is in its catch block, or past it, because a provisioning step failed
ProvisioningFailed == spc \in {"wFailed", "exit1"} /\ status.status = "failed" /\ ~provisioned

GIdx == 1..Len(gitLog)

\* C32: between two agent_end events git pull runs at most once, and every
\* git pull follows a git status of the same handler that reported a clean
\* tree, however the tool_call handlers interleave.
C32_AtMostOnePullPerSession ==
    /\ \A i, j \in GIdx :
          (i < j /\ gitLog[i].op = "pull" /\ gitLog[j].op = "pull") =>
              \E k \in GIdx : i < k /\ k < j /\ gitLog[k].op = "agent_end"
    /\ \A j \in GIdx :
          gitLog[j].op = "pull" =>
              /\ j > 1
              /\ gitLog[j - 1] = GitEntry("status", gitLog[j].h, FALSE)


\* ------------------------------------------------------ lazy message:start
SIdx == 1..Len(subEvents)

\* the positions of the events of one type reported for message m
EventsOf(t, m) == {i \in SIdx : subEvents[i].type = t /\ subEvents[i].messageId = m}

\* every message_update callback of message m has run to its end
UpdatesDone(m) == \A i \in 1..Len(sessDeltas[m]) : updPc[<<m, i>>] = "done"

\* C33: for every assistant message at most one message:start is reported,
\* none when it has no text delta and one when its deltas are all handled;
\* every message:delta of the message comes after its message:start, the
\* deltas are reported in the order the session emitted them, and a
\* message:end is reported only after a message:start.
C33_LazyStartOncePerMessage ==
    \A m \in 1..MaxSessionMsgs :
        /\ Cardinality(EventsOf("message:start", m)) <= 1
        /\ (m > sessMsg \/ sessDeltas[m] = <<>>) => EventsOf("message:start", m) = {}
        /\ (m <= sessMsg /\ sessDeltas[m] # <<>> /\ UpdatesDone(m)) =>
               /\ EventsOf("message:start", m) # {}
               /\ ForwardedDeltas(m) = sessDeltas[m]
        /\ \A i \in EventsOf("message:delta", m) \cup EventsOf("message:end", m) :
               \E j \in EventsOf("message:start", m) : j < i
        /\ \A i \in SIdx : subEvents[i].type \in {"message:delta", "message:end"} =>
               subEvents[i].messageId # 0


\* ------------------------------------------------------- no orphaned event
\* C34: at every suspension point at which the queue holds an event a
\* delivery pass is active (isFlushing is set and one flush() call is inside
\* its loop), and a delivery pass is active whenever drain() has to wait.
C34_QueuedEventHasPass ==
    /\ eventQueue # <<>> => (isFlushing /\ \E c \in Events : PassActive(c))
    /\ isFlushing => \E c \in Events : PassActive(c)
    /\ (drainPc = "polling" /\ DrainWaits(eventQueue, isFlushing)) => \E c \in Events : PassActive(c)

\* a failed send put its event back into the queue, a later event waits
\* behind it, and the pass is about to take the next one
C34_Witness ==
    /\ Len(eventQueue) >= 2
    /\ \E c \in Events : pc[c] = "loop"
    /\ Len(log) > 0
    /\ log[Len(log)].op = "requeue"


\* ------------------------------------------------------- prompt cancellation
\* C35: once the watcher has detected the signal file, the call of
\* session.abort() does not wait on the Gateway: while the callback has not
\* yet called session.abort(), it is not parked behind a delivery pass, so
\* its next step is enabled whether or not the Gateway answers.
C35_AbortDoesNotWaitOnDelivery ==
    (aborted /\ sessionAborts = 0) =>
        /\ abortPc = "requestedW"
        /\ SystemMessageResolved(abortEv)


\* ------------------------------------------------- exit code and document
\* C36: when the setup process has exited, the status file holds a complete
\* terminal document that agrees with the exit code: ready exactly with exit
\* code 0, failed exactly with exit code 1.
C36_ExitAgreesWithDocument ==
    spc \in {"exit0", "exit1"} =>
        /\ statusFile.exists
        /\ statusFile.len = DocChunks
        /\ spc = "exit0" <=> statusFile.doc.status = "ready"
        /\ spc = "exit1" <=> statusFile.doc.status = "failed"


\* ------------------------------------------------------------ stale status
\* C37: the SetupWaiter exits with code 0 only if the setup process of the
\* current run has finished every provisioning step and gone on to its
\* ready write, whatever an earlier run left in the status file.
C37_SuccessOnlyFromCurrentRun == wtpc = "exit0" => provisioned


\* ----------------------------------------------------------- terminal event
\* the positions in emitted of the events of one type
Emitted(t) == {i \in 1..Len(emitted) : emitted[i] = t}

\* runAgent has left its try block: it is about to drain, or has ended
RunEnded == cpc \in {"drain", "drainThrow", "returned", "threw"}

Prompted(m) == \E i \in 1..Len(prompts) : m \in Range(prompts[i])

\* message m was in the list a fetch returned
Fetched(m) == \E k \in QIdx : IsReturn(k, "fetch") /\ m \in Range(qcLog[k].value)

\* a markDelivered or markProcessed call was issued for message m
Acknowledged(m) == \E k \in QIdx : (IsCall(k, "markDelivered") \/ IsCall(k, "markProcessed")) /\ qcLog[k].id = m

\* C39: when the for loop of the poll loop sees the abort flag at the turn
\* of a message, it issues no acknowledgement and leaves the loop; and when
\* an aborted run has ended, a fetched message that was never forwarded to
\* the session has no markDelivered and no markProcessed call and is
\* recorded neither as delivered nor as processed at the Gateway.
C39_SkippedStaysPending ==
    /\ [][(cpc = "pollMsg" /\ aborted) =>
             /\ cpc' \in {"pollMsg", "pollHead"}
             /\ qcLog' = qcLog
             /\ gwDelivered' = gwDelivered
             /\ gwProcessed' = gwProcessed]_vars
    /\ [](RunEnded /\ aborted =>
             \A m \in Msgs :
                 (Fetched(m) /\ ~Prompted(m)) =>
                     /\ ~Acknowledged(m)
                     /\ m \notin gwDelivered
                     /\ m \notin gwProcessed)

\* an aborted run has ended; a message of a poll batch was fetched and
\* skipped, and is still pending at the Gateway
C39_Witness ==
    /\ cpc = "returned"
    /\ aborted
    /\ Len(prompts) >= 1
    /\ \E m \in Msgs : Fetched(m) /\ ~Prompted(m) /\ m \in PendingSet


\* -------------------------------------------- forwarded messages at run end
\* the session.prompt call at position q of the log was made by the poll
\* loop and returned without throwing
PollPromptReturned(q) ==
    /\ IsPollPrompt(q)
    /\ \E r \in QIdx : r > q /\ IsReturn(r, "prompt") /\ qcLog[r].id = qcLog[q].id /\ ~qcLog[r].raised
                        /\ \A h \in (q + 1)..(r - 1) : ~IsCall(h, "prompt")

\* C40: when the run has ended, by returning or by throwing, every message
\* that the poll loop forwarded to the session and whose session call
\* returned has a markProcessed call after that session call.
C40_ForwardedProcessedAtRunEnd ==
    cpc \in {"returned", "threw"} =>
        \A q \in QIdx :
            PollPromptReturned(q) =>
                \E c \in QIdx : c > q /\ IsCall(c, "markProcessed") /\ <<qcLog[c].id>> = qcLog[q].id

====
